---- MODULE Spec2Model ----
(***************************************************************************)
(* A model of the crawl-and-pipeline engine of nodejs-webscrape:           *)
(*   - PuppeteerCrawler (src/src/puppeteerCrawler.js and the copy held in  *)
(*     src/us-states/getUSStates.js), the depth/page bounded site walker;  *)
(*   - the workflow of src/src/workflow.js and the replay of               *)
(*     src/src/retryFailed.js, which run pages through the extractor in    *)
(*     batches;                                                            *)
(*   - the retry loops of ProductProcessorNode.process and of              *)
(*     ProductUploader.uploadWithRetry;                                    *)
(*   - ProductUploader.processProducts and WooCommerceAPI.uploadProduct    *)
(*     of src/src/woo/productUploader.js, and the upload loop once more    *)
(*     request by request, with getOrCreateCategory and getOrCreateTag;    *)
(*   - the functions _shouldCrawl and _normalizeUrl on their own.          *)
(* URLs are written as sequences of one-character strings without the      *)
(* constant "https://" prefix: <<"a","/","p">> is https://a/p.             *)
(***************************************************************************)
EXTENDS Integers, Sequences, FiniteSets, TLC

\* ------------------------------------------------------------------ bounds

\* Most links one page returns.
MaxLinks == 2
\* Largest maxPages option tried.
MaxPagesOpt == 2
\* Largest maxDepth option tried.
MaxDepthOpt == 2
\* Largest retries argument of uploadWithRetry tried.
MaxRetriesOpt == 3
\* Most specific URLs given to the workflow, most pages in a failed-pages file.
MaxDocs == 4
\* Most products in the input file of processProducts.
MaxProducts == 2

\* The most trailing slashes a URL handed to _normalizeUrl ends its path with.
MaxSlashes == 2

\* ------------------------------------------------------- program constants

\* let retries = 3 of the content-wait loop.
WaitRetries == 3
\* const maxRetries = 3 of ProductProcessorNode.process.
MaxExtractRetries == 3
\* The wait after a rate-limit error in process, in ms.
RateLimitDelay == 90000
\* The wait after any other error in process, in ms.
OtherErrorDelay == 5000
\* The wait of uploadWithRetry after a processing conflict, in ms.
ConflictDelay == 30000
\* The first delay of the exponential backoff of uploadWithRetry, in ms.
BackoffBase == 5000
\* maxPages of the crawler the workflow builds.
WorkflowMaxPages == 50
\* maxDepth of the crawler the workflow builds.
WorkflowMaxDepth == 7
\* const batchSize of the process node of the workflow.
WorkflowBatchSize == 3
\* const batchSize of processFailedPages.
ReplayBatchSize == 2
\* The wait after each crawlSinglePage call of the crawl node, in ms.
SinglePageDelay == 2000
\* The wait between two batches, in ms.
BatchDelay == 90000
\* The default of the retries parameter of uploadWithRetry.
DefaultRetries == 3

\* -------------------------------------------------------------------- URLs

U_root == <<"a", "/">>
U_p == <<"a", "/", "p">>
U_pVar == <<"A", "/", "P", "/", "?", "k", "#", "f">>
U_q == <<"a", "/", "q">>
U_other == <<"b", "/", "p">>
U_bad == <<"[", "/", "p">>

\* The URLs the modelled site and its pages can mention.
Urls == {U_root, U_p, U_pVar, U_q, U_other, U_bad}

\* String.prototype.toLowerCase on one character.
LowerChar(c) ==
  CASE c = "A" -> "a"
    [] c = "B" -> "b"
    [] c = "P" -> "p"
    [] c = "Q" -> "q"
    [] c = "K" -> "k"
    [] c = "F" -> "f"
    [] OTHER -> c

\* String.prototype.toLowerCase.
ToLower(s) == [i \in 1..Len(s) |-> LowerChar(s[i])]

\* Index of the first character of s that is in set cs, Len(s)+1 if none.
FirstOf(s, cs) ==
  IF \E i \in 1..Len(s) : s[i] \in cs
  THEN CHOOSE i \in 1..Len(s) : s[i] \in cs /\ \A j \in 1..(i - 1) : s[j] \notin cs
  ELSE Len(s) + 1

\* new URL(url) succeeds: the host is non-empty and holds no forbidden character.
Parses(url) ==
  LET h == SubSeq(url, 1, FirstOf(url, {"/", "?", "#"}) - 1)
  IN Len(h) > 0 /\ \A i \in 1..Len(h) : h[i] \notin {"[", " "}

\* new URL(url).hostname: the host, lower-cased by the parser.
Hostname(url) == ToLower(SubSeq(url, 1, FirstOf(url, {"/", "?", "#"}) - 1))

\* new URL(url).pathname: from the first "/" to the query or fragment, "/" if empty.
Pathname(url) ==
  LET rest == SubSeq(url, FirstOf(url, {"/", "?", "#"}), Len(url))
      p == SubSeq(rest, 1, FirstOf(rest, {"?", "#"}) - 1)
  IN IF Len(p) = 0 THEN <<"/">> ELSE p

\* s.replace(/\/+$/, ""): s without its trailing slashes.
RECURSIVE StripTrailingSlashes(_)
StripTrailingSlashes(s) ==
  IF Len(s) > 0 /\ s[Len(s)] = "/"
  THEN StripTrailingSlashes(SubSeq(s, 1, Len(s) - 1))
  ELSE s

\* NormalizeUrl without the toLowerCase call: only the parser lower-cases the host.
NormalizeUrlKeepsCase(url) ==
  IF Parses(url)
  THEN StripTrailingSlashes(Hostname(url) \o Pathname(url))
  ELSE url

\* PuppeteerCrawler._normalizeUrl: origin + pathname, lower-cased, trailing
\* slashes stripped; the input unchanged when it does not parse.
NormalizeUrl(url) ==
  IF Parses(url)
  THEN StripTrailingSlashes(ToLower(Hostname(url) \o Pathname(url)))
  ELSE url

\* PuppeteerCrawler._isSameDomain, for two URLs that parse.
IsSameDomain(url1, url2) == Hostname(url1) = Hostname(url2)

\* ------------------------------------------------------------------ state

VARIABLES
  impl,               \* which PuppeteerCrawler: "src" (src/src) or "us" (us-states)
  maxPages,           \* options.maxPages
  maxDepth,           \* options.maxDepth
  includePaths,       \* options.includePaths, as the constructor stores it
  excludePaths,       \* options.excludePaths, as the constructor stores it
  crawlState,         \* "idle", "running", "done" or "threw"
  browserOpen,        \* the browser of crawl() or crawlSinglePage() is launched and not closed
  visited,            \* this.visited
  normalizedVisited,  \* this.normalizedVisited
  pagesProcessed,     \* this.pagesProcessed
  documents,          \* the documents array of crawl()
  stack,              \* the _crawlPage calls in progress, innermost last
  openPages,          \* pages opened by browser.newPage() and not yet closed
  fetchLog,           \* every page.goto of the run, in order: [url, depth]
  pageLog,            \* what each loaded page turned out to be: [url, leaf, nlinks]
  lastSkip,           \* the latest visit the skip test turned away: [url, depth]
  reloads,            \* page.reload() calls of the run
  startUrl,           \* the argument of crawl(), <<>> before the call
  returned,           \* what crawl() returned, <<>> before it returns
  workers,            \* the process() calls of the chunk in progress, in chunk order
  up,                 \* the uploadWithRetry call in progress
  mode,               \* what runs: "crawl" / "urls" (workflow), "replay" (retryFailed), "none"
  stage,              \* where the run is
  specificUrls,       \* the specificUrls argument of the workflow
  urlIdx,             \* the place of the crawl node's loop in specificUrls
  crawledPages,       \* state.crawledPages of the workflow, failedPages of the replay
  batchSize,          \* const batchSize of the running batch loop, 0 before it starts
  batchStart,         \* the loop variable i of the batch loop
  batchResults,       \* what the callbacks of the chunk in progress resolved to
  products,           \* products of the workflow, successfulProducts of the replay
  failed,             \* failed of the workflow, stillFailed of the replay
  started,            \* the numbers of the input items whose callback was started
  settled,            \* the numbers of the input items whose callback has resolved
  workerResult,       \* per started item: what its worker gave, "none" while in flight
  waitLog,            \* the waits of the run, in ms, in order
  pubStage,           \* where processProducts is
  rawProducts,        \* filteredProducts of processProducts
  formattedProducts,  \* formattedProducts of processProducts
  pubIdx,             \* the place of the running loop of processProducts in its list
  failedProducts,     \* this.failedProducts
  processedProducts,  \* this.processedProducts
  catalog,            \* the store: the status of the product of each SKU it holds
  requested,          \* the API requests sent so far: [item, kind]
  dupItems,           \* the items whose SKU an upload found published in the store
  fnStage,            \* how far the function under test has been applied
  fnInclude,          \* the includePaths option a crawler under test was built with
  fnExclude,          \* the excludePaths option a crawler under test was built with
  fnUrl,              \* the URL a function under test is applied to
  fnUrl2,             \* a second URL, a variant of the first
  fnKey,              \* _normalizeUrl(fnUrl)
  fnKey2,             \* _normalizeUrl(fnUrl2)
  fnAgain,            \* _normalizeUrl(fnKey)
  fnAccept,           \* what _shouldCrawl(fnUrl) returned
  runs,               \* the crawl() calls made on the crawler after its first one
  firstFetchLog,      \* fetchLog of the first crawl() call, once a second is made
  firstReturned,      \* what the first crawl() call returned, once a second is made
  failFile,           \* products/<PRODUCT>_fail.json, the file the replay reads
  failedPagesFile,    \* failed_pages.json of the working directory
  productsFile,       \* extracted_products.json of the working directory
  exitCode,           \* how processFailedPages ended: "none", "ok", "error" (process.exit(1))
  uploadStage,        \* where the upload loop of processProducts is, request by request
  uploadProducts,     \* the product objects the upload loop goes through
  uploadIdx,          \* the number of the product the upload loop has come to
  tasks,              \* per product: its uploadWithRetry call and the uploadProduct call in it
  termCache,          \* this.categoryCache and this.tagCache: name -> id, 0 when not held
  storeTerms,         \* the categories and tags the store holds: [kind, name, id]
  apiLog,             \* the requests sent to the store, in order
  termCalls,          \* the getOrCreateCategory / getOrCreateTag calls that returned, in order
  apiErrors           \* the requests that failed so far

crawlVars ==
  <<impl, maxPages, maxDepth, includePaths, excludePaths,
    crawlState, browserOpen, visited, normalizedVisited,
    pagesProcessed, documents, stack, openPages, fetchLog, pageLog, lastSkip,
    reloads, startUrl, returned>>

retryVars == <<workers, up>>

pipeVars ==
  <<mode, stage, specificUrls, urlIdx, crawledPages, batchSize, batchStart, batchResults,
    products, failed, started, settled, workerResult, waitLog>>

pipeVarsButStage ==
  <<mode, specificUrls, urlIdx, crawledPages, batchSize, batchStart, batchResults,
    products, failed, started, settled, workerResult, waitLog>>

pubVars ==
  <<pubStage, rawProducts, formattedProducts, pubIdx, failedProducts, processedProducts,
    catalog, requested, dupItems>>

fnVars == <<fnStage, fnInclude, fnExclude, fnUrl, fnUrl2, fnKey, fnKey2, fnAgain, fnAccept>>

runVars == <<runs, firstFetchLog, firstReturned>>

\* What neither the crawler, the pipeline nor the retry loops touch.
fileVars == <<failFile, failedPagesFile, productsFile, exitCode>>

\* A JSON file: not yet read or written by the program, absent, or present
\* with the list it holds.
Unseen == [state |-> "unseen", items |-> <<>>]

Absent == [state |-> "absent", items |-> <<>>]

Holding(list) == [state |-> "present", items |-> list]

\* The upload loop of processProducts taken request by request.
wooVars ==
  <<uploadStage, uploadProducts, uploadIdx, tasks, termCache, storeTerms, apiLog, termCalls,
    apiErrors>>

\* What neither the crawler, the pipeline nor the retry loops touch.
restVars == <<pubVars, fnVars, runVars, fileVars, wooVars>>

\* What the crawler never touches.
nonCrawlVars == <<retryVars, pipeVars, restVars>>

vars == <<crawlVars, retryVars, pipeVars, restVars>>

\* lastSkip before any visit was skipped.
NoSkip == [url |-> <<>>, depth |-> -1]

\* A PageRecord: the page's content is not modelled, its url identifies it.
Doc(url) == [url |-> url]

\* One activation of _crawlPage(browser, url, depth, documents): pc is the place
\* it has reached, nlinks the length of the page's link list and idx the place
\* of the link loop in it, retries the counter of the content-wait loop. The
\* page is the site's, not the program's: the target of each link is drawn
\* when the loop reaches it.
Frame(url, depth) ==
  [url |-> url, depth |-> depth, pc |-> "entry", nlinks |-> 0, idx |-> 1, retries |-> 0]

Top == stack[Len(stack)]

Pop == SubSeq(stack, 1, Len(stack) - 1)

SetTop(f) == [stack EXCEPT ![Len(stack)] = f]

\* ---------------------------------------------------------------- crawler

\* s.replace(/^\/+/, ""): s without its leading slashes.
RECURSIVE StripLeadingSlashes(_)
StripLeadingSlashes(s) ==
  IF Len(s) > 0 /\ s[1] = "/" THEN StripLeadingSlashes(Tail(s)) ELSE s

\* path.toLowerCase().replace(/^\/+|\/+$/g, "") on every entry of a path list.
NormalizePaths(paths) ==
  [k \in 1..Len(paths) |-> StripLeadingSlashes(StripTrailingSlashes(ToLower(paths[k])))]

\* The path lists of new PuppeteerCrawler({includePaths, excludePaths}).
PathOptions(inc, exc) ==
  /\ includePaths = NormalizePaths(inc)
  /\ excludePaths = NormalizePaths(exc)

\* new PuppeteerCrawler({maxPages, maxDepth}) of the given copy: empty visited
\* sets, zero processed count.
NewCrawler(which, pages, depth) ==
  /\ impl = which
  /\ maxPages = pages
  /\ maxDepth = depth
  /\ crawlState = "idle"
  /\ browserOpen = FALSE
  /\ visited = {}
  /\ normalizedVisited = {}
  /\ pagesProcessed = 0
  /\ documents = <<>>
  /\ stack = <<>>
  /\ openPages = 0
  /\ fetchLog = <<>>
  /\ pageLog = <<>>
  /\ lastSkip = NoSkip
  /\ reloads = 0
  /\ startUrl = <<>>
  /\ returned = <<>>

\* A crawler of either copy with any options within the bounds.
CrawlInit ==
  /\ \E which \in {"src", "us"}, pages \in 1..MaxPagesOpt, depth \in 1..MaxDepthOpt :
       NewCrawler(which, pages, depth)
  /\ PathOptions(<<>>, <<>>)

\* crawl(url) up to its call of _crawlPage(browser, url, 0, documents).
CrawlStartAt(url) ==
  /\ crawlState = "idle"
  /\ startUrl' = url
  /\ stack' = <<Frame(url, 0)>>
  /\ crawlState' = "running"
  /\ browserOpen' = TRUE
  /\ documents' = <<>>
  /\ fetchLog' = <<>>
  /\ pageLog' = <<>>
  /\ lastSkip' = NoSkip
  /\ reloads' = 0
  /\ UNCHANGED <<impl, maxPages, maxDepth, includePaths, excludePaths,
                 visited, normalizedVisited, pagesProcessed,
                 openPages, returned>>

\* crawl(startUrl) called on its own, with any start URL.
CrawlStart ==
  /\ \E url \in Urls : CrawlStartAt(url)
  /\ UNCHANGED nonCrawlVars

\* SkipVisit with the page bound off by one.
SkipVisitLatePageBound(url, depth) ==
  \/ depth >= maxDepth
  \/ Cardinality(visited) > maxPages
  \/ url \in visited
  \/ NormalizeUrl(url) \in normalizedVisited

\* SkipVisit without the test of the normalized key.
SkipVisitRawOnly(url, depth) ==
  \/ depth >= maxDepth
  \/ Cardinality(visited) >= maxPages
  \/ url \in visited

\* SkipVisit without the depth test.
SkipVisitNoDepthBound(url, depth) ==
  \/ Cardinality(visited) >= maxPages
  \/ url \in visited
  \/ NormalizeUrl(url) \in normalizedVisited

\* The skip test that opens _crawlPage.
SkipVisit(url, depth) ==
  \/ depth >= maxDepth
  \/ Cardinality(visited) >= maxPages
  \/ url \in visited
  \/ NormalizeUrl(url) \in normalizedVisited

\* An exception leaves the innermost _crawlPage call: the caller's catch block
\* takes it (the call sits in the caller's try), or crawl()'s finally when the
\* call was the outermost.
Propagate ==
  IF Len(stack) > 1
  THEN [Pop EXCEPT ![Len(stack) - 1].pc = "close"]
  ELSE <<>>

\* _crawlPage from its entry to browser.newPage(): return at once when the visit
\* is skipped, else mark the URL visited, count it and open a page. newPage is
\* outside the try block: when it throws, the exception leaves the call.
CrawlPageEnter ==
  /\ crawlState = "running"
  /\ stack # <<>>
  /\ Top.pc = "entry"
  /\ IF SkipVisit(Top.url, Top.depth)
     THEN /\ stack' = Pop
          /\ lastSkip' = [url |-> Top.url, depth |-> Top.depth]
          /\ UNCHANGED <<visited, normalizedVisited, pagesProcessed, openPages, crawlState>>
     ELSE /\ visited' = visited \cup {Top.url}
          /\ UNCHANGED lastSkip
          /\ normalizedVisited' = normalizedVisited \cup {NormalizeUrl(Top.url)}
          /\ pagesProcessed' = pagesProcessed + 1
          /\ \E opened \in BOOLEAN :
               IF opened
               THEN /\ openPages' = openPages + 1
                    /\ stack' = SetTop([Top EXCEPT !.pc = "goto"])
                    /\ UNCHANGED crawlState
               ELSE /\ stack' = Propagate
                    /\ crawlState' = IF Len(stack) > 1 THEN crawlState ELSE "throwing"
                    /\ UNCHANGED openPages
  /\ UNCHANGED <<impl, maxPages, maxDepth, includePaths, excludePaths, browserOpen, documents,
                 fetchLog, pageLog, reloads, startUrl, returned>>
  /\ UNCHANGED nonCrawlVars

\* page.goto(url): the navigation is logged; it fails for a URL that does not
\* parse and may fail (timeout, network) for any other.
\* us: a failure is caught by the catch block of _crawlPage.
\* src: a failure is caught by the inner catch, which returns null; on success
\* the content-wait loop starts with retries = 3.
Goto ==
  /\ crawlState = "running"
  /\ stack # <<>>
  /\ Top.pc = "goto"
  /\ fetchLog' = Append(fetchLog, [url |-> Top.url, depth |-> Top.depth])
  /\ \E ok \in BOOLEAN :
       /\ ok => Parses(Top.url)
       /\ stack' = SetTop([Top EXCEPT
                             !.pc = IF ~ok THEN "close"
                                    ELSE IF impl = "us" THEN "process" ELSE "wait",
                             !.retries = WaitRetries])
  /\ UNCHANGED <<impl, maxPages, maxDepth, includePaths, excludePaths,
                 crawlState, browserOpen, visited,
                 normalizedVisited, pagesProcessed, documents, openPages, pageLog, lastSkip,
                 reloads, startUrl, returned>>
  /\ UNCHANGED nonCrawlVars

\* src only: one turn of the loop "while (retries > 0 && !contentFound)":
\* waitForSelector finds the content, or times out; a timeout with no retry
\* left rethrows (caught: return null), else the page is reloaded, and a reload
\* that throws is caught the same way.
WaitForContent ==
  /\ crawlState = "running"
  /\ stack # <<>>
  /\ Top.pc = "wait"
  /\ \E found \in BOOLEAN, reloaded \in BOOLEAN :
       IF found
       THEN /\ reloaded
            /\ stack' = SetTop([Top EXCEPT !.pc = "process"])
            /\ UNCHANGED reloads
       ELSE IF Top.retries - 1 = 0
       THEN /\ reloaded
            /\ stack' = SetTop([Top EXCEPT !.pc = "close", !.retries = 0])
            /\ UNCHANGED reloads
       ELSE /\ reloads' = reloads + 1
            /\ stack' = SetTop([Top EXCEPT !.retries = @ - 1,
                                          !.pc = IF reloaded THEN "wait" ELSE "close"])
  /\ UNCHANGED <<impl, maxPages, maxDepth, includePaths, excludePaths,
                 crawlState, browserOpen, visited,
                 normalizedVisited, pagesProcessed, documents, openPages, fetchLog,
                 pageLog, lastSkip, startUrl, returned>>
  /\ UNCHANGED nonCrawlVars

\* us: _processPage(page, url) returns a document (a product page) or null; a
\* document is pushed onto documents; then the page's product links are read,
\* and that evaluate call may throw into the catch block.
\* src: page.evaluate returns {isProductPage, links}; _crawlPage returns the
\* record, {links} or null to its caller and touches nothing else.
ProcessPage ==
  /\ crawlState = "running"
  /\ stack # <<>>
  /\ Top.pc = "process"
  /\ \E leaf \in BOOLEAN, n \in 0..MaxLinks, evalOk \in BOOLEAN :
       /\ ~evalOk => n = 0
       /\ (impl = "src" /\ ~evalOk) => ~leaf
       /\ pageLog' = Append(pageLog, [url |-> Top.url, leaf |-> leaf, nlinks |-> n])
       /\ documents' = IF impl = "us" /\ leaf
                        THEN Append(documents, Doc(Top.url))
                        ELSE documents
       /\ stack' = SetTop([Top EXCEPT
                             !.pc = IF impl = "us" /\ evalOk THEN "links" ELSE "close",
                             !.nlinks = n])
  /\ UNCHANGED <<impl, maxPages, maxDepth, includePaths, excludePaths,
                 crawlState, browserOpen, visited,
                 normalizedVisited, pagesProcessed, openPages, fetchLog, lastSkip,
                 reloads, startUrl, returned>>
  /\ UNCHANGED nonCrawlVars

\* NextLink that starts the visits of all the links of the page at once
\* (links.map(...) under Promise.all) instead of awaiting each in turn.
NextLinkAllAtOnce ==
  /\ crawlState = "running"
  /\ stack # <<>>
  /\ Top.pc = "links"
  /\ IF Top.idx > Top.nlinks
     THEN stack' = SetTop([Top EXCEPT !.pc = "close"])
     ELSE \E first \in Urls, second \in Urls :
            /\ Parses(first) /\ Parses(second)
            /\ IsSameDomain(Top.url, first) /\ IsSameDomain(Top.url, second)
            /\ stack' =
                 IF Top.idx < Top.nlinks
                 THEN SetTop([Top EXCEPT !.idx = @ + 2])
                        \o <<Frame(second, Top.depth + 1), Frame(first, Top.depth + 1)>>
                 ELSE Append(SetTop([Top EXCEPT !.idx = @ + 1]), Frame(first, Top.depth + 1))
  /\ UNCHANGED <<impl, maxPages, maxDepth, includePaths, excludePaths,
                 crawlState, browserOpen, visited,
                 normalizedVisited, pagesProcessed, documents, openPages, fetchLog,
                 pageLog, lastSkip, reloads, startUrl, returned>>
  /\ UNCHANGED nonCrawlVars

\* NextLink whose loop stays on the link it has just taken.
NextLinkStaysOnLink ==
  /\ crawlState = "running"
  /\ stack # <<>>
  /\ Top.pc = "links"
  /\ IF Top.idx > Top.nlinks
     THEN stack' = SetTop([Top EXCEPT !.pc = "close"])
     ELSE \E link \in Urls :
            stack' =
              IF ~Parses(link)
              THEN SetTop([Top EXCEPT !.pc = "close"])
              ELSE IF IsSameDomain(Top.url, link)
              THEN Append(stack, Frame(link, Top.depth + 1))
              ELSE SetTop([Top EXCEPT !.idx = @ + 1])
  /\ UNCHANGED <<impl, maxPages, maxDepth, includePaths, excludePaths,
                 crawlState, browserOpen, visited,
                 normalizedVisited, pagesProcessed, documents, openPages, fetchLog,
                 pageLog, lastSkip, reloads, startUrl, returned>>
  /\ UNCHANGED nonCrawlVars

\* us only: one turn of "for (const link of links)": a link of the same host
\* is crawled at depth + 1 before the loop goes on; _isSameDomain throws on a
\* link that does not parse, which ends the loop in the catch block.
NextLink ==
  /\ crawlState = "running"
  /\ stack # <<>>
  /\ Top.pc = "links"
  /\ IF Top.idx > Top.nlinks
     THEN stack' = SetTop([Top EXCEPT !.pc = "close"])
     ELSE \E link \in Urls :
            stack' =
              IF ~Parses(link)
              THEN SetTop([Top EXCEPT !.pc = "close"])
              ELSE IF IsSameDomain(Top.url, link)
              THEN Append(SetTop([Top EXCEPT !.idx = @ + 1]), Frame(link, Top.depth + 1))
              ELSE SetTop([Top EXCEPT !.idx = @ + 1])
  /\ UNCHANGED <<impl, maxPages, maxDepth, includePaths, excludePaths,
                 crawlState, browserOpen, visited,
                 normalizedVisited, pagesProcessed, documents, openPages, fetchLog,
                 pageLog, lastSkip, reloads, startUrl, returned>>
  /\ UNCHANGED nonCrawlVars

\* ClosePage with page.close() at the end of the try block instead of in a
\* finally block: a page that failed to load is left open.
ClosePageInTry ==
  /\ crawlState = "running"
  /\ stack # <<>>
  /\ Top.pc = "close"
  /\ openPages' = IF \E j \in 1..Len(pageLog) : pageLog[j].url = Top.url
                  THEN openPages - 1
                  ELSE openPages
  /\ stack' = Pop
  /\ UNCHANGED <<impl, maxPages, maxDepth, includePaths, excludePaths,
                 crawlState, browserOpen, visited,
                 normalizedVisited, pagesProcessed, documents, fetchLog, pageLog, lastSkip,
                 reloads, startUrl, returned>>
  /\ UNCHANGED nonCrawlVars

\* The finally block of _crawlPage: page.close(), then the call returns.
ClosePage ==
  /\ crawlState = "running"
  /\ stack # <<>>
  /\ Top.pc = "close"
  /\ openPages' = openPages - 1
  /\ stack' = Pop
  /\ UNCHANGED <<impl, maxPages, maxDepth, includePaths, excludePaths,
                 crawlState, browserOpen, visited,
                 normalizedVisited, pagesProcessed, documents, fetchLog, pageLog, lastSkip,
                 reloads, startUrl, returned>>
  /\ UNCHANGED nonCrawlVars

\* CrawlFinish with browser.close() after the try block instead of in a finally
\* block: an exception passes it by.
CrawlFinishNoFinally ==
  /\ crawlState \in {"running", "throwing"}
  /\ stack = <<>>
  /\ browserOpen' = (crawlState = "throwing")
  /\ crawlState' = IF crawlState = "running" THEN "done" ELSE "threw"
  /\ returned' = IF crawlState = "running" THEN documents ELSE returned
  /\ UNCHANGED <<impl, maxPages, maxDepth, includePaths, excludePaths,
                 visited, normalizedVisited, pagesProcessed,
                 documents, stack, openPages, fetchLog, pageLog, lastSkip, reloads, startUrl>>
  /\ UNCHANGED nonCrawlVars

\* crawl() after the outermost _crawlPage: the finally block closes the
\* browser, then documents is returned, or the exception goes on to the caller.
CrawlFinish ==
  /\ crawlState \in {"running", "throwing"}
  /\ stack = <<>>
  /\ browserOpen' = FALSE
  /\ crawlState' = IF crawlState = "running" THEN "done" ELSE "threw"
  /\ returned' = IF crawlState = "running" THEN documents ELSE returned
  /\ UNCHANGED <<impl, maxPages, maxDepth, includePaths, excludePaths,
                 visited, normalizedVisited, pagesProcessed,
                 documents, stack, openPages, fetchLog, pageLog, lastSkip, reloads, startUrl>>
  /\ UNCHANGED nonCrawlVars

CrawlNext ==
  \/ CrawlStart
  \/ CrawlPageEnter
  \/ Goto
  \/ WaitForContent
  \/ ProcessPage
  \/ NextLink
  \/ ClosePage
  \/ CrawlFinish

\* ------------------------------------------------------------ retry loops

\* The outcomes of one structuredLlm.invoke call: extracted data, a result with
\* neither parsed nor raw data, or an error of one of three kinds.
ErrorKinds == {"rate", "conflict", "other"}

ExtractOutcomes == {"ok", "empty"} \cup ErrorKinds

\* The outcomes of one wooAPI.uploadProduct call: the created product, a falsy
\* response body, or an error of one of three kinds.
UploadOutcomes == {"ok", "falsy"} \cup ErrorKinds

\* IsRateLimit that recognises no error.
IsRateLimitNever(kind) == FALSE

\* isRateLimit of process: the error's message or payload names rateLimitExceeded.
IsRateLimit(kind) == kind = "rate"

\* The test of uploadWithRetry for woocommerce_rest_product_not_created with
\* "already under processing".
IsProcessingConflict(kind) == kind = "conflict"

\* Math.pow(2, n).
RECURSIVE Pow2(_)
Pow2(n) == IF n <= 0 THEN 1 ELSE 2 * Pow2(n - 1)

\* s includes sub as a substring (String.prototype.includes).
Includes(s, sub) ==
  \E i \in 0..(Len(s) - Len(sub)) : SubSeq(s, i + 1, i + Len(sub)) = sub

\* The site name isProductPage looks for in a URL ("csisolar.com/").
SiteMark == <<"a", "/">>

\* ProductProcessorNode.isProductPage(content, url).
IsProductPage(url) == Includes(url, SiteMark)

\* One process(document) call made for item number `item` of the batch input.
\* pc "invoke": a structuredLlm.invoke call is in flight; "done": the call has
\* returned `result` ("value" or "null"). attempts counts the invoke calls made,
\* events logs each failed one: its error kind and the wait that followed (0 if none).
\* checkUrl: the caller first rejects a document without url (workflow.js).
\* A document without url makes isProductPage throw, which process catches.
NewWorker(item, doc, checkUrl) ==
  LET rejected == (checkUrl /\ doc.url = <<>>) \/ doc.url = <<>> \/ ~IsProductPage(doc.url)
  IN [item |-> item, doc |-> doc,
      pc |-> IF rejected THEN "done" ELSE "invoke",
      result |-> IF rejected THEN "null" ELSE "none",
      retryCount |-> 0,
      attempts |-> IF rejected THEN 0 ELSE 1,
      events |-> <<>>]

\* ExtractOtherDelay as an exponential backoff.
ExtractOtherDelayExponential(retryCount) == OtherErrorDelay * Pow2(retryCount)

\* The wait of process after a failed attempt of a kind other than rate limit.
ExtractOtherDelay(retryCount) == OtherErrorDelay

\* The body of the retry loop of process for one outcome of the invoke call in
\* flight: the call's state after the outcome is handled, up to the next invoke
\* call or the return.
ExtractStep(w, outcome) ==
  IF outcome = "ok" THEN [w EXCEPT !.pc = "done", !.result = "value"]
  ELSE IF outcome = "empty" THEN [w EXCEPT !.pc = "done", !.result = "null"]
  ELSE IF IsRateLimit(outcome)
  THEN IF w.retryCount + 1 < MaxExtractRetries
       THEN [w EXCEPT !.retryCount = @ + 1,
                      !.attempts = @ + 1,
                      !.events = Append(@, [kind |-> outcome, wait |-> RateLimitDelay])]
       ELSE [w EXCEPT !.retryCount = @ + 1,
                      !.events = Append(@, [kind |-> outcome, wait |-> 0]),
                      !.pc = "done", !.result = "null"]
  ELSE IF w.retryCount + 1 < MaxExtractRetries
       THEN [w EXCEPT !.retryCount = @ + 1,
                      !.attempts = @ + 1,
                      !.events = Append(@, [kind |-> outcome,
                                            wait |-> ExtractOtherDelay(w.retryCount)])]
       ELSE [w EXCEPT !.retryCount = @ + 1,
                      !.events = Append(@, [kind |-> outcome,
                                            wait |-> ExtractOtherDelay(w.retryCount)]),
                      !.pc = "done", !.result = "null"]

\* The invoke call in flight of worker k ends with some outcome and the retry
\* loop of process handles it.
ExtractAttempt(k) ==
  /\ k \in 1..Len(workers)
  /\ workers[k].pc = "invoke"
  /\ \E outcome \in ExtractOutcomes :
       workers' = [workers EXCEPT ![k] = ExtractStep(workers[k], outcome)]

\* No uploadWithRetry call.
NoUpload ==
  [pc |-> "none", retries |-> 0, i |-> 0, attempts |-> 0, events |-> <<>>,
   result |-> "none", lastError |-> "none"]

\* uploadWithRetry(product, retries) at its first uploadProduct call. i is the
\* loop counter, attempts counts the uploadProduct calls made, events logs each
\* call that did not return a product: the loop counter, what came back and the
\* wait that followed (0 if none).
NewUpload(retries) ==
  [pc |-> IF retries > 0 THEN "upload" ELSE "done",
   retries |-> retries, i |-> 0,
   attempts |-> IF retries > 0 THEN 1 ELSE 0,
   events |-> <<>>,
   result |-> IF retries > 0 THEN "none" ELSE "threw",
   lastError |-> "none"]

\* BackoffDelay starting one doubling late.
BackoffDelayFromOne(i) == BackoffBase * Pow2(i + 1)

\* The exponential backoff of uploadWithRetry after failed attempt i.
BackoffDelay(i) == BackoffBase * Pow2(i)

\* UploadLoopOn with the loop bound off by one.
UploadLoopOnLate(u, kind, wait) ==
  IF u.i + 1 <= u.retries
  THEN [u EXCEPT !.i = @ + 1, !.attempts = @ + 1,
                 !.events = Append(@, [i |-> u.i, kind |-> kind, wait |-> wait])]
  ELSE [u EXCEPT !.i = @ + 1, !.pc = "done", !.result = "threw",
                 !.events = Append(@, [i |-> u.i, kind |-> kind, wait |-> wait])]

\* uploadWithRetry after the loop body of counter u.i has run with the given
\* wait: the loop goes on to the next uploadProduct call, or ends and throws.
UploadLoopOn(u, kind, wait) ==
  IF u.i + 1 < u.retries
  THEN [u EXCEPT !.i = @ + 1, !.attempts = @ + 1,
                 !.events = Append(@, [i |-> u.i, kind |-> kind, wait |-> wait])]
  ELSE [u EXCEPT !.i = @ + 1, !.pc = "done", !.result = "threw",
                 !.events = Append(@, [i |-> u.i, kind |-> kind, wait |-> wait])]

\* UploadStep without the branch for processing conflicts: they get the
\* exponential backoff of the other errors.
UploadStepNoConflictBranch(u, outcome) ==
  IF outcome = "ok" THEN [u EXCEPT !.pc = "done", !.result = "ok"]
  ELSE IF outcome = "falsy" THEN UploadLoopOn(u, outcome, 0)
  ELSE LET v == [u EXCEPT !.lastError = outcome]
       IN IF u.i = u.retries - 1
          THEN [v EXCEPT !.pc = "done", !.result = "threw",
                         !.events = Append(@, [i |-> u.i, kind |-> outcome, wait |-> 0])]
          ELSE UploadLoopOn(v, outcome, BackoffDelay(u.i))

\* The body of the loop of uploadWithRetry for one outcome of the uploadProduct
\* call in flight.
UploadStep(u, outcome) ==
  IF outcome = "ok" THEN [u EXCEPT !.pc = "done", !.result = "ok"]
  ELSE IF outcome = "falsy" THEN UploadLoopOn(u, outcome, 0)
  ELSE LET v == [u EXCEPT !.lastError = outcome]
       IN IF IsProcessingConflict(outcome) THEN UploadLoopOn(v, outcome, ConflictDelay)
          ELSE IF u.i = u.retries - 1
          THEN [v EXCEPT !.pc = "done", !.result = "threw",
                         !.events = Append(@, [i |-> u.i, kind |-> outcome, wait |-> 0])]
          ELSE UploadLoopOn(v, outcome, BackoffDelay(u.i))

\* The uploadProduct call in flight ends with some outcome and the loop of
\* uploadWithRetry handles it.
UploadAttempt ==
  /\ up.pc = "upload"
  /\ \E outcome \in UploadOutcomes : up' = UploadStep(up, outcome)

\* ------------------------------------------------------------ path filter

\* String.prototype.startsWith.
StartsWith(s, prefix) == Len(prefix) <= Len(s) /\ SubSeq(s, 1, Len(prefix)) = prefix

\* ShouldCrawl that consults the exclude list whatever the include list holds.
ShouldCrawlAlwaysExcludes(url) ==
  LET pathname == ToLower(Pathname(url))
  IN /\ \/ Len(includePaths) = 0
        \/ pathname = <<"/">> /\ Cardinality(visited) = 0
        \/ \E k \in 1..Len(includePaths) :
             StartsWith(pathname, <<"/">> \o ToLower(includePaths[k]))
     /\ ~\E k \in 1..Len(excludePaths) : Includes(pathname, ToLower(excludePaths[k]))

\* ShouldCrawl that lets any URL in while nothing is visited.
ShouldCrawlAnyFirst(url) ==
  LET pathname == ToLower(Pathname(url))
  IN IF Len(includePaths) > 0
     THEN \/ Cardinality(visited) = 0
          \/ \E k \in 1..Len(includePaths) :
               StartsWith(pathname, <<"/">> \o ToLower(includePaths[k]))
     ELSE IF Len(excludePaths) > 0
     THEN ~\E k \in 1..Len(excludePaths) : Includes(pathname, ToLower(excludePaths[k]))
     ELSE TRUE

\* PuppeteerCrawler._shouldCrawl(url), for a URL that parses: with include
\* entries, the root path while nothing is visited, or a path that starts with
\* "/" + an entry; else, with exclude entries, a path that contains none of
\* them; else any path.
ShouldCrawl(url) ==
  LET pathname == ToLower(Pathname(url))
  IN IF Len(includePaths) > 0
     THEN \/ pathname = <<"/">> /\ Cardinality(visited) = 0
          \/ \E k \in 1..Len(includePaths) :
               StartsWith(pathname, <<"/">> \o ToLower(includePaths[k]))
     ELSE IF Len(excludePaths) > 0
     THEN ~\E k \in 1..Len(excludePaths) : Includes(pathname, ToLower(excludePaths[k]))
     ELSE TRUE

\* --------------------------------------------------------------- pipeline

\* "https://www.csisolar.com/inverter/", the start URL of the crawl node.
WorkflowStartUrl == U_root

\* The URLs a specificUrls list can hold.
SingleUrls == {U_p, U_other, U_bad}

\* The pages a failed-pages file can hold: a product page, a page of another
\* site and a page without url.
ReplayDocs == {Doc(U_p), Doc(U_other), Doc(<<>>)}

\* The lists over S of at most n elements.
SeqsUpTo(S, n) == UNION {[1..m -> S] : m \in 0..n}

Min(a, b) == IF a <= b THEN a ELSE b

\* Nothing runs.
PipeIdle ==
  /\ mode = "none"
  /\ stage = "idle"
  /\ specificUrls = <<>>
  /\ urlIdx = 0
  /\ crawledPages = <<>>
  /\ batchSize = 0
  /\ batchStart = 0
  /\ batchResults = <<>>
  /\ products = <<>>
  /\ failed = <<>>
  /\ started = {}
  /\ settled = {}
  /\ workerResult = <<>>
  /\ waitLog = <<>>

\* The extracted data process returns for input item `item`.
Data(item, doc) == [item |-> item, url |-> doc.url]

NoData == [item |-> 0, url |-> <<>>]

\* The entry of batchResults of a callback that has not resolved.
Pending == [settled |-> FALSE, success |-> FALSE, data |-> NoData, doc |-> Doc(<<>>)]

\* CallbackResult that takes every result for a success.
CallbackResultAlwaysSuccess(result, doc, item) ==
  [settled |-> TRUE, success |-> TRUE, data |-> Data(item, doc), doc |-> Doc(<<>>)]

\* What the callback of batch.map resolves to once process has returned
\* `result`, or has thrown, or was not called for a document without url:
\* {success: true, data: result} for a truthy result, else {success: false, doc}.
CallbackResult(result, doc, item) ==
  IF result = "value"
  THEN [settled |-> TRUE, success |-> TRUE, data |-> Data(item, doc), doc |-> Doc(<<>>)]
  ELSE [settled |-> TRUE, success |-> FALSE, data |-> NoData, doc |-> doc]

\* A process call that has returned: its locals are gone.
Returned(w) ==
  [w EXCEPT !.pc = "returned", !.result = "none", !.retryCount = 0, !.attempts = 0,
            !.events = <<>>]

\* ChunkEnd that slices one item too many.
ChunkEndOneMore(i, size, n) == Min(i + size + 1, n)

\* The end of slice(i, i + batchSize) of a list of n items.
ChunkEnd(i, size, n) == Min(i + size, n)

\* One turn of the batch loop up to "await Promise.all": the chunk is sliced
\* and the callback of each of its items runs up to its first await, the
\* structuredLlm.invoke call of process; a callback whose document has no url
\* or is no product page resolves without any such call.
BeginBatch(docs, size, i, checkUrl) ==
  LET last == ChunkEnd(i, size, Len(docs))
      ws == [k \in 1..(last - i) |-> NewWorker(i + k, docs[i + k], checkUrl)]
      now == {k \in 1..Len(ws) : ws[k].pc = "done"}
  IN /\ stage' = "batch"
     /\ batchStart' = i
     /\ workers' = [k \in 1..Len(ws) |-> IF k \in now THEN Returned(ws[k]) ELSE ws[k]]
     /\ batchResults' =
          [k \in 1..Len(ws) |->
             IF k \in now THEN CallbackResult(ws[k].result, ws[k].doc, ws[k].item)
             ELSE Pending]
     /\ started' = started \cup {i + k : k \in 1..Len(ws)}
     /\ settled' = settled \cup {i + k : k \in now}
     /\ workerResult' =
          [n \in 1..last |->
             IF n <= i THEN workerResult[n]
             ELSE IF (n - i) \in now THEN ws[n - i].result ELSE "none"]

\* The data of the successful entries of batchResults, in order.
ProductsOf(results) ==
  LET s == SelectSeq(results, LAMBDA r : r.success)
  IN [k \in 1..Len(s) |-> s[k].data]

\* FailedOf that lists the failed documents last first.
FailedOfReversed(results) ==
  LET s == SelectSeq(results, LAMBDA r : ~r.success)
  IN [k \in 1..Len(s) |-> s[Len(s) + 1 - k].doc]

\* The documents of the failed entries of batchResults, in order.
FailedOf(results) ==
  LET s == SelectSeq(results, LAMBDA r : ~r.success)
  IN [k \in 1..Len(s) |-> s[k].doc]

\* The crawl node without specificUrls: crawler.crawl(start URL) is called.
WorkflowCrawl ==
  /\ stage = "idle"
  /\ mode' = "crawl"
  /\ stage' = "crawl"
  /\ CrawlStartAt(WorkflowStartUrl)
  /\ UNCHANGED <<specificUrls, urlIdx, crawledPages, batchSize, batchStart, batchResults,
                 products, failed, started, settled, workerResult, waitLog>>
  /\ UNCHANGED <<retryVars, restVars>>

\* The crawl node after crawler.crawl: its documents become crawledPages (none
\* of them is falsy), or its exception ends the workflow.
WorkflowCrawlDone ==
  /\ stage = "crawl"
  /\ crawlState \in {"done", "threw"}
  /\ IF crawlState = "done"
     THEN stage' = "process" /\ crawledPages' = returned
     ELSE stage' = "failed" /\ UNCHANGED crawledPages
  /\ UNCHANGED <<mode, specificUrls, urlIdx, batchSize, batchStart, batchResults,
                 products, failed, started, settled, workerResult, waitLog>>
  /\ UNCHANGED <<crawlVars, retryVars, restVars>>

\* The crawl node with specificUrls: the loop over the URLs starts, or ends at
\* once on an empty list.
WorkflowUrls ==
  /\ stage = "idle"
  /\ \E urls \in SeqsUpTo(SingleUrls, MaxDocs) :
       /\ specificUrls' = urls
       /\ urlIdx' = IF urls = <<>> THEN 0 ELSE 1
       /\ stage' = IF urls = <<>> THEN "process" ELSE "single"
  /\ mode' = "urls"
  /\ UNCHANGED <<crawledPages, batchSize, batchStart, batchResults,
                 products, failed, started, settled, workerResult, waitLog>>
  /\ UNCHANGED <<crawlVars, retryVars, restVars>>

\* crawlSinglePage(specificUrls[urlIdx]) up to its try block: a browser of its
\* own is launched; a failure of the launch leaves the crawl node.
SinglePageLaunch ==
  /\ stage = "single"
  /\ \E launched \in BOOLEAN :
       /\ stage' = IF launched THEN "singleOpen" ELSE "failed"
       /\ browserOpen' = launched
  /\ UNCHANGED <<mode, specificUrls, urlIdx, crawledPages, batchSize, batchStart,
                 batchResults, products, failed, started, settled, workerResult, waitLog>>
  /\ UNCHANGED <<impl, maxPages, maxDepth, includePaths, excludePaths, crawlState, visited,
                 normalizedVisited, pagesProcessed, documents, stack, openPages, fetchLog,
                 pageLog, lastSkip, reloads, startUrl, returned>>
  /\ UNCHANGED <<retryVars, restVars>>

\* SinglePage with browser.close() at the end of the try block instead of in
\* a finally block.
SinglePageCloseInTry ==
  /\ stage = "singleOpen"
  /\ \E ok \in BOOLEAN :
       /\ ok => Parses(specificUrls[urlIdx])
       /\ fetchLog' = Append(fetchLog, [url |-> specificUrls[urlIdx], depth |-> 0])
       /\ crawledPages' = IF ok THEN Append(crawledPages, Doc(specificUrls[urlIdx]))
                          ELSE crawledPages
       /\ browserOpen' = ~ok
  /\ stage' = "singleWait"
  /\ waitLog' = Append(waitLog, SinglePageDelay)
  /\ UNCHANGED <<mode, specificUrls, urlIdx, batchSize, batchStart, batchResults,
                 products, failed, started, settled, workerResult>>
  /\ UNCHANGED <<impl, maxPages, maxDepth, includePaths, excludePaths, crawlState, visited,
                 normalizedVisited, pagesProcessed, documents, stack, openPages,
                 pageLog, lastSkip, reloads, startUrl, returned>>
  /\ UNCHANGED <<retryVars, restVars>>

\* crawlSinglePage from its try block to its return, and the rest of the loop
\* body: a page is opened, loaded with page.goto and read, with no look at
\* its links; the document is returned, or null from the catch block on any
\* error, as for a URL that does not parse; the finally block closes the
\* browser. A document is pushed, and the 2000 ms wait starts.
SinglePage ==
  /\ stage = "singleOpen"
  /\ \E ok \in BOOLEAN :
       /\ ok => Parses(specificUrls[urlIdx])
       /\ fetchLog' = Append(fetchLog, [url |-> specificUrls[urlIdx], depth |-> 0])
       /\ crawledPages' = IF ok THEN Append(crawledPages, Doc(specificUrls[urlIdx]))
                          ELSE crawledPages
  /\ browserOpen' = FALSE
  /\ stage' = "singleWait"
  /\ waitLog' = Append(waitLog, SinglePageDelay)
  /\ UNCHANGED <<mode, specificUrls, urlIdx, batchSize, batchStart, batchResults,
                 products, failed, started, settled, workerResult>>
  /\ UNCHANGED <<impl, maxPages, maxDepth, includePaths, excludePaths, crawlState, visited,
                 normalizedVisited, pagesProcessed, documents, stack, openPages,
                 pageLog, lastSkip, reloads, startUrl, returned>>
  /\ UNCHANGED <<retryVars, restVars>>

\* The 2000 ms wait is over: the next URL, or the end of the crawl node.
SingleWaitDone ==
  /\ stage = "singleWait"
  /\ IF urlIdx < Len(specificUrls)
     THEN urlIdx' = urlIdx + 1 /\ stage' = "single"
     ELSE stage' = "process" /\ UNCHANGED urlIdx
  /\ UNCHANGED <<mode, specificUrls, crawledPages, batchSize, batchStart, batchResults,
                 products, failed, started, settled, workerResult, waitLog>>
  /\ UNCHANGED <<crawlVars, retryVars, restVars>>

\* The process node up to the first chunk, or to its return when there is no page.
ProcessStart ==
  /\ stage = "process"
  /\ batchSize' = WorkflowBatchSize
  /\ IF crawledPages = <<>>
     THEN /\ stage' = "done"
          /\ UNCHANGED <<batchStart, batchResults, started, settled, workerResult, workers>>
     ELSE BeginBatch(crawledPages, WorkflowBatchSize, 0, TRUE)
  /\ UNCHANGED <<mode, specificUrls, urlIdx, crawledPages, products, failed, waitLog>>
  /\ UNCHANGED <<crawlVars, up, restVars>>

\* processFailedPages up to the first chunk: the file is read; with no page in
\* it the function returns.
ReplayStart ==
  /\ stage = "idle"
  /\ mode' = "replay"
  /\ batchSize' = ReplayBatchSize
  /\ \E docs \in SeqsUpTo(ReplayDocs, MaxDocs) :
       /\ crawledPages' = docs
       /\ failFile' = Holding(docs)
       /\ IF docs = <<>>
          THEN /\ stage' = "done"
               /\ UNCHANGED <<batchStart, batchResults, started, settled, workerResult,
                              workers>>
          ELSE BeginBatch(docs, ReplayBatchSize, 0, FALSE)
  /\ UNCHANGED <<specificUrls, urlIdx, products, failed, waitLog>>
  /\ UNCHANGED <<crawlVars, up, pubVars, fnVars, runVars, failedPagesFile, productsFile,
                 exitCode, wooVars>>

\* The invoke call in flight of one process call of the chunk ends with some
\* outcome; when process returns on it, the callback resolves.
BatchExtract ==
  /\ stage = "batch"
  /\ \E k \in 1..Len(workers) :
       /\ workers[k].pc = "invoke"
       /\ \E outcome \in ExtractOutcomes :
            LET w == ExtractStep(workers[k], outcome)
            IN IF w.pc = "done"
               THEN /\ workers' = [workers EXCEPT ![k] = Returned(w)]
                    /\ batchResults' =
                         [batchResults EXCEPT ![k] = CallbackResult(w.result, w.doc, w.item)]
                    /\ settled' = settled \cup {w.item}
                    /\ workerResult' = [workerResult EXCEPT ![w.item] = w.result]
               ELSE /\ workers' = [workers EXCEPT ![k] = w]
                    /\ UNCHANGED <<batchResults, settled, workerResult>>
  /\ UNCHANGED <<mode, stage, specificUrls, urlIdx, crawledPages, batchSize, batchStart,
                 products, failed, started, waitLog>>
  /\ UNCHANGED <<crawlVars, up, restVars>>

\* BatchCollect that waits after every chunk, the last one too.
BatchCollectAlwaysWaits ==
  /\ stage = "batch"
  /\ \A k \in 1..Len(batchResults) : batchResults[k].settled
  /\ products' = products \o ProductsOf(batchResults)
  /\ failed' = failed \o FailedOf(batchResults)
  /\ workers' = <<>>
  /\ batchResults' = <<>>
  /\ waitLog' = Append(waitLog, BatchDelay)
  /\ stage' = IF batchStart + batchSize < Len(crawledPages) THEN "batchWait" ELSE "done"
  /\ UNCHANGED <<mode, specificUrls, urlIdx, crawledPages, batchSize, batchStart,
                 started, settled, workerResult>>
  /\ UNCHANGED <<crawlVars, up, restVars>>

\* Promise.all has resolved: the results are split over the two lists in chunk
\* order; then the 90000 ms wait when items remain, else the loop ends.
BatchCollect ==
  /\ stage = "batch"
  /\ \A k \in 1..Len(batchResults) : batchResults[k].settled
  /\ products' = products \o ProductsOf(batchResults)
  /\ failed' = failed \o FailedOf(batchResults)
  /\ workers' = <<>>
  /\ batchResults' = <<>>
  /\ IF batchStart + batchSize < Len(crawledPages)
     THEN stage' = "batchWait" /\ waitLog' = Append(waitLog, BatchDelay)
     ELSE stage' = "done" /\ UNCHANGED waitLog
  /\ UNCHANGED <<mode, specificUrls, urlIdx, crawledPages, batchSize, batchStart,
                 started, settled, workerResult>>
  /\ UNCHANGED <<crawlVars, up, restVars>>

\* The wait between two batches is over: i += batchSize and the next chunk starts.
BatchWaitDone ==
  /\ stage = "batchWait"
  /\ BeginBatch(crawledPages, batchSize, batchStart + batchSize, mode # "replay")
  /\ UNCHANGED <<mode, specificUrls, urlIdx, crawledPages, batchSize, products, failed,
                 waitLog>>
  /\ UNCHANGED <<crawlVars, up, restVars>>

\* A product an earlier run left in extracted_products.json.
OldProduct == [item |-> 0, url |-> U_q]

\* What extracted_products.json can hold when the replay comes to it.
ProductFiles == {Absent, Holding(<<>>), Holding(<<OldProduct>>)}

\* processFailedPages after its batch loop: the new products are appended to
\* what extracted_products.json holds, if there are any; the pages that failed
\* again are written to failed_pages.json, or that file is removed when there
\* are none, and unlinkSync throws when there is no such file: the catch block
\* then ends the process with code 1.
ReplayPersist ==
  /\ mode = "replay"
  /\ stage = "done"
  /\ crawledPages # <<>>
  /\ stage' = "exited"
  /\ \E existing \in ProductFiles, hadFailedPages \in BOOLEAN :
       /\ productsFile' =
            IF products = <<>> THEN existing ELSE Holding(existing.items \o products)
       /\ failedPagesFile' = IF failed # <<>> THEN Holding(failed) ELSE Absent
       /\ exitCode' = IF failed = <<>> /\ ~hadFailedPages THEN "error" ELSE "ok"
  /\ UNCHANGED failFile
  /\ UNCHANGED pipeVarsButStage
  /\ UNCHANGED <<crawlVars, retryVars, pubVars, fnVars, runVars, wooVars>>

PipeNext ==
  \/ WorkflowCrawl
  \/ CrawlPageEnter
  \/ Goto
  \/ WaitForContent
  \/ ProcessPage
  \/ ClosePage
  \/ CrawlFinish
  \/ WorkflowCrawlDone
  \/ WorkflowUrls
  \/ SinglePageLaunch
  \/ SinglePage
  \/ SingleWaitDone
  \/ ProcessStart
  \/ ReplayStart
  \/ BatchExtract
  \/ BatchCollect
  \/ BatchWaitDone
  \/ ReplayPersist

\* ---------------------------------------------------------------- publish

\* The SKUs products and the store can hold.
Skus == {"s1", "s2"}

\* The store before any product: no SKU is held.
EmptyCatalog == [sku \in Skus |-> "none"]

\* No processProducts call.
PubIdle ==
  /\ pubStage = "idle"
  /\ rawProducts = <<>>
  /\ formattedProducts = <<>>
  /\ pubIdx = 0
  /\ failedProducts = <<>>
  /\ processedProducts = <<>>
  /\ catalog = EmptyCatalog
  /\ requested = {}
  /\ dupItems = {}

\* A product of the input file: name and sku, "" when missing, and the two
\* prices formatProduct reads, "" when missing.
Product(name, sku, regular, current) ==
  [name |-> name, sku |-> sku, price |-> [regular |-> regular, current |-> current]]

\* The products an input file can hold: two complete ones, one without name,
\* one without sku and one without any price.
ProductKinds ==
  {Product("n", "s1", "9", ""), Product("n", "s2", "", "7"), Product("", "s1", "9", ""),
   Product("n", "", "9", ""), Product("n", "s1", "", "")}

\* The states the store can be in when processProducts starts: it holds no
\* product of SKU s1, a published one or a draft.
Catalogs == {[EmptyCatalog EXCEPT !["s1"] = status] : status \in {"none", "publish", "draft"}}

\* formatProduct(product), for input item `item`: name, sku and
\* regular_price = formatPrice(price.regular) || formatPrice(price.current).
FormatProduct(item, p) ==
  [item |-> item, name |-> p.name, sku |-> p.sku,
   regular_price |-> IF p.price.regular # "" THEN p.price.regular ELSE p.price.current]

\* IsValid that looks at the name only.
IsValidNameOnly(f) == f.name # ""

\* The validation of processProducts: name, sku and regular_price are truthy.
IsValid(f) == f.name # "" /\ f.sku # "" /\ f.regular_price # ""

\* The entry of failedProducts for a product that failed the validation of
\* the format loop.
FormatFailure(item, p) ==
  [item |-> item, sku |-> IF p.sku # "" THEN p.sku ELSE "unknown", error |-> "format"]

\* The format loop of processProducts over a list: what it leaves in
\* formattedProducts.
Formatted(list) ==
  LET all == [k \in 1..Len(list) |-> FormatProduct(k, list[k])]
  IN SelectSeq(all, IsValid)

\* The format loop of processProducts over a list: what it pushes onto
\* failedProducts.
FormatFailures(list) ==
  LET bad == SelectSeq([k \in 1..Len(list) |-> [item |-> k, p |-> list[k]]],
                       LAMBDA e : ~IsValid(FormatProduct(e.item, e.p)))
  IN [k \in 1..Len(bad) |-> FormatFailure(bad[k].item, bad[k].p)]

\* ErrorMessage that forgets the error.
ErrorMessageLost(u) == "attempts"

\* The message of what uploadWithRetry throws: lastError, or a new Error
\* ("Failed to upload ... after N attempts") when no attempt threw.
ErrorMessage(u) == IF u.lastError # "none" THEN u.lastError ELSE "attempts"

\* The upload loop of processProducts at product number idx of formatted: the
\* validation is repeated, then uploadWithRetry(product) is called, retries = 3;
\* past the last product the results are saved, which may fail.
UploadLoopAt(formatted, idx, failures) ==
  IF idx > Len(formatted)
  THEN /\ \E saved \in BOOLEAN : pubStage' = IF saved THEN "done" ELSE "threw"
       /\ pubIdx' = idx
       /\ up' = NoUpload
       /\ failedProducts' = failures
  ELSE IF ~IsValid(formatted[idx])
  THEN /\ pubStage' = "save"
       /\ pubIdx' = idx
       /\ up' = NoUpload
       /\ failedProducts' =
            Append(failures, [item |-> formatted[idx].item, sku |-> formatted[idx].sku,
                              error |-> "format"])
  ELSE /\ pubStage' = "upload"
       /\ pubIdx' = idx
       /\ up' = NewUpload(DefaultRetries)
       /\ failedProducts' = failures

\* processProducts from its call to the first upload: the connection test and
\* the reading of the input file (either may throw), the return on an empty
\* list, the format loop and the writing of the formatted products.
ProcessProductsStart ==
  /\ pubStage = "idle"
  /\ \E list \in SeqsUpTo(ProductKinds, MaxProducts), store \in Catalogs,
        ready \in BOOLEAN :
       /\ rawProducts' = list
       /\ catalog' = store
       /\ IF ~ready
          THEN /\ pubStage' = "threw"
               /\ UNCHANGED <<formattedProducts, pubIdx, failedProducts, up>>
          ELSE IF list = <<>>
          THEN /\ pubStage' = "done"
               /\ UNCHANGED <<formattedProducts, pubIdx, failedProducts, up>>
          ELSE /\ formattedProducts' = Formatted(list)
               /\ UploadLoopAt(Formatted(list), 1, FormatFailures(list))
  /\ UNCHANGED <<processedProducts, requested, dupItems>>
  /\ UNCHANGED <<crawlVars, workers, pipeVars, fnVars, runVars, fileVars, wooVars>>

\* One uploadProduct(product) call of uploadWithRetry, from call to outcome.
\* The store is asked for the products of the SKU; a published one makes the
\* inner try throw, a product of another status is deleted; whatever the inner
\* try throws is caught and logged, and the call goes on. Then the product is
\* posted, and the outcome of the post is that of the call; the loop of
\* uploadWithRetry handles it. A result ends the upload with a success entry
\* and the 5000 ms wait, a throw with a failure entry and saveResults.
UploadProductCall ==
  /\ pubStage = "upload"
  /\ up.pc = "upload"
  /\ LET product == formattedProducts[pubIdx]
         item == product.item
     IN \E found \in BOOLEAN, deleted \in BOOLEAN, outcome \in UploadOutcomes :
          LET held == IF found THEN catalog[product.sku] ELSE "none"
              gone == held = "draft" /\ deleted
              u == UploadStep(up, outcome)
          IN /\ held # "draft" => deleted
             /\ requested' = requested \cup {[item |-> item, kind |-> "get"]}
                               \cup (IF held = "draft"
                                     THEN {[item |-> item, kind |-> "delete"]} ELSE {})
                               \cup {[item |-> item, kind |-> "post"]}
             /\ dupItems' = IF held = "publish" THEN dupItems \cup {item} ELSE dupItems
             /\ catalog' = [catalog EXCEPT ![product.sku] =
                              IF outcome = "ok" THEN "publish"
                              ELSE IF gone THEN "none" ELSE @]
             /\ up' = u
             /\ pubStage' = IF u.pc # "done" THEN "upload"
                            ELSE IF u.result = "ok" THEN "wait" ELSE "save"
             /\ processedProducts' =
                  IF u.pc = "done" /\ u.result = "ok"
                  THEN Append(processedProducts, [item |-> item, sku |-> product.sku])
                  ELSE processedProducts
             /\ failedProducts' =
                  IF u.pc = "done" /\ u.result # "ok"
                  THEN Append(failedProducts,
                              [item |-> item, sku |-> product.sku, error |-> ErrorMessage(u)])
                  ELSE failedProducts
  /\ UNCHANGED <<rawProducts, formattedProducts, pubIdx>>
  /\ UNCHANGED <<crawlVars, workers, pipeVars, fnVars, runVars, fileVars, wooVars>>

\* The 5000 ms wait after a success is over, or saveResults after a failure has
\* returned or thrown: the loop goes on with the next product.
UploadLoopNext ==
  /\ pubStage \in {"wait", "save"}
  /\ \E saved \in BOOLEAN :
       /\ pubStage = "wait" => saved
       /\ IF saved
          THEN UploadLoopAt(formattedProducts, pubIdx + 1, failedProducts)
          ELSE /\ pubStage' = "threw"
               /\ UNCHANGED <<pubIdx, up, failedProducts>>
  /\ UNCHANGED <<rawProducts, formattedProducts, processedProducts, catalog, requested,
                 dupItems>>
  /\ UNCHANGED <<crawlVars, workers, pipeVars, fnVars, runVars, fileVars, wooVars>>

PublishNext ==
  \/ ProcessProductsStart
  \/ UploadProductCall
  \/ UploadLoopNext

\* -------------------------------------------------------- upload requests

\* Most requests that fail in one run of the upload loop.
MaxApiErrors == 3

\* A category or tag entry of a product object: {name: ...} as formatProduct
\* writes it, {id: ...} as uploadProduct writes it; a missing field is "" or 0.
NameEntry(name) == [name |-> name, id |-> 0]

IdEntry(id) == [name |-> "", id |-> id]

\* The categories and tags of formatProduct(product): one {name} entry for
\* each name of the input product, in order.
FormatTerms(names) == [k \in 1..Len(names) |-> NameEntry(names[k])]

\* The product object formatProduct gives for input item `item`, with the
\* fields the upload reads; name and regular_price are present.
UploadProduct(item, sku, categories, tags) ==
  [item |-> item, sku |-> sku,
   categories |-> FormatTerms(categories), tags |-> FormatTerms(tags)]

\* The input products of the upload loop: [sku, categories, tags]. The
\* category names "p" and "P" differ in case only.
UploadInput(sku, categories, tags) == [sku |-> sku, categories |-> categories, tags |-> tags]

\* The lists of input products the upload loop is run on.
UploadInputs ==
  { <<UploadInput("s1", <<"p">>, <<"q">>)>>,
    <<UploadInput("s1", <<"p", "q">>, <<>>)>>,
    <<UploadInput("s1", <<"p">>, <<>>), UploadInput("s2", <<"p", "p">>, <<"q">>)>>,
    <<UploadInput("s1", <<"p">>, <<>>), UploadInput("s2", <<"P">>, <<>>)>>,
    <<UploadInput("s2", <<>>, <<"q">>), UploadInput("s1", <<"q">>, <<"q">>)>> }

\* The categories and tags the store can hold when the loop starts.
TermStores == { {}, {[kind |-> "category", name |-> "p", id |-> 1]} }

\* The two kinds of term and the names they go by.
TermKinds == {"category", "tag"}

TermNames == {"p", "P", "q"}

\* No uploadWithRetry call for a product yet.
NoTask ==
  [pc |-> "none", retry |-> NoUpload, kind |-> "category", names |-> <<>>, pos |-> 1,
   ids |-> <<>>, requests |-> 0]

\* uploadWithRetry(product) at its first uploadProduct call, which is at the
\* request for the products of the SKU. retry is the state of the loop of
\* uploadWithRetry; kind, names, pos and ids are the category or tag loop of
\* uploadProduct in progress; requests counts the requests of the
\* getOrCreate call in progress.
NewTask == [NoTask EXCEPT !.pc = "check", !.retry = NewUpload(DefaultRetries)]

\* Nothing of the upload loop has run.
WooIdle ==
  /\ uploadStage = "idle"
  /\ uploadProducts = <<>>
  /\ uploadIdx = 0
  /\ tasks = <<>>
  /\ termCache = [kind \in TermKinds |-> [name \in TermNames |-> 0]]
  /\ storeTerms = {}
  /\ apiLog = <<>>
  /\ termCalls = <<>>
  /\ apiErrors = 0

\* A request as the log keeps it: the product and the attempt it was sent
\* for, the verb and the collection, the name or SKU asked for, the status of
\* the product a delete removes, and the category and tag ids a product is
\* posted with.
Request(item, attempt, verb, path, arg) ==
  [item |-> item, attempt |-> attempt, verb |-> verb, path |-> path, arg |-> arg,
   held |-> "none", categories |-> <<>>, tags |-> <<>>]

\* (list || []).filter((e) => e && e.name).map((e) => e.name)
ValidNames(list) ==
  LET named == SelectSeq(list, LAMBDA e : e.name # "")
  IN [k \in 1..Len(named) |-> named[k].name]

\* ids.push({ id }) for every id of the list.
IdEntries(ids) == [k \in 1..Len(ids) |-> IdEntry(ids[k])]

\* The product objects and the tasks before the first upload:
\* processProducts up to its upload loop on a list of complete products.
UploadLoopBegin ==
  /\ uploadStage = "idle"
  /\ uploadStage' = "loop"
  /\ \E list \in UploadInputs, store \in Catalogs, terms \in TermStores :
       /\ uploadProducts' =
            [k \in 1..Len(list) |->
               UploadProduct(k, list[k].sku, list[k].categories, list[k].tags)]
       /\ tasks' = [k \in 1..Len(list) |-> NoTask]
       /\ catalog' = store
       /\ storeTerms' = terms
  /\ UNCHANGED <<uploadIdx, termCache, apiLog, termCalls, apiErrors>>
  /\ UNCHANGED <<pubStage, rawProducts, formattedProducts, pubIdx, failedProducts,
                 processedProducts, requested, dupItems>>
  /\ UNCHANGED <<crawlVars, retryVars, pipeVars, fnVars, runVars, fileVars>>

\* AwaitedUploads of a loop that calls uploadWithRetry without await.
AwaitedUploadsNever == TRUE

\* "await this.uploadWithRetry(product)" and the rest of the loop body: the
\* loop takes the next product only when the iterations before it are over.
AwaitedUploads == \A k \in 1..Len(tasks) : tasks[k].pc \in {"none", "returned"}

\* One more turn of "for (const product of formattedProducts)": the product is
\* complete, so uploadWithRetry(product) is called; past the last product the
\* results are saved, which may fail.
UploadLoopTurn ==
  /\ uploadStage = "loop"
  /\ AwaitedUploads
  /\ IF uploadIdx < Len(uploadProducts)
     THEN /\ uploadIdx' = uploadIdx + 1
          /\ tasks' = [tasks EXCEPT ![uploadIdx + 1] = NewTask]
          /\ UNCHANGED uploadStage
     ELSE /\ \E saved \in BOOLEAN : uploadStage' = IF saved THEN "done" ELSE "threw"
          /\ UNCHANGED <<uploadIdx, tasks>>
  /\ UNCHANGED <<uploadProducts, termCache, storeTerms, apiLog, termCalls, apiErrors>>
  /\ UNCHANGED <<crawlVars, retryVars, pipeVars, pubVars, fnVars, runVars, fileVars>>

\* uploadProduct between two getOrCreate calls: the category loop goes on, or
\* ends with product.categories = categoryIds and the tag loop starts; the tag
\* loop goes on, or ends with product.tags = tagIds and the product is ready
\* to be posted. The result is the call and the product object after it.
AfterTerm(t, p) ==
  IF t.pos <= Len(t.names) THEN [task |-> t, product |-> p]
  ELSE IF t.kind = "category"
  THEN LET q == [p EXCEPT !.categories = IdEntries(t.ids)]
           names == ValidNames(p.tags)
       IN IF names = <<>>
          THEN [task |-> [t EXCEPT !.kind = "tag", !.names = <<>>, !.pos = 1, !.ids = <<>>,
                                   !.pc = "post"],
                product |-> [q EXCEPT !.tags = <<>>]]
          ELSE [task |-> [t EXCEPT !.kind = "tag", !.names = names, !.pos = 1, !.ids = <<>>],
                product |-> q]
  ELSE [task |-> [t EXCEPT !.pc = "post"], product |-> [p EXCEPT !.tags = IdEntries(t.ids)]]

\* uploadProduct from the end of its check of the SKU to its first
\* getOrCreate call or, with no valid name, to the post.
BeginTerms(t, p) ==
  AfterTerm([t EXCEPT !.pc = "lookup", !.kind = "category",
                      !.names = ValidNames(p.categories), !.pos = 1, !.ids = <<>>,
                      !.requests = 0], p)

\* ExistingAction that takes no account of the status.
ExistingActionAlwaysDelete(status) == IF status = "none" THEN "go on" ELSE "delete"

\* What uploadProduct does about the product the store holds under the SKU:
\* nothing when there is none, an error thrown for a published one, a delete
\* for any other.
ExistingAction(status) ==
  IF status = "none" THEN "go on"
  ELSE IF status = "publish" THEN "throw"
  ELSE "delete"

\* The call of product k asks the store for the products of its SKU; the
\* request may fail; the error thrown for a published product and the error
\* of the request are caught and logged, and the call goes on to the terms.
CheckExisting(k) ==
  /\ uploadStage = "loop"
  /\ tasks[k].pc = "check"
  /\ apiLog' = Append(apiLog, Request(k, tasks[k].retry.attempts, "get", "products",
                                      uploadProducts[k].sku))
  /\ \E ok \in BOOLEAN :
       /\ ~ok => apiErrors < MaxApiErrors
       /\ apiErrors' = IF ok THEN apiErrors ELSE apiErrors + 1
       /\ IF ok /\ ExistingAction(catalog[uploadProducts[k].sku]) = "delete"
          THEN /\ tasks' = [tasks EXCEPT ![k].pc = "delete"]
               /\ UNCHANGED uploadProducts
          ELSE LET next == BeginTerms(tasks[k], uploadProducts[k])
               IN /\ tasks' = [tasks EXCEPT ![k] = next.task]
                  /\ uploadProducts' = [uploadProducts EXCEPT ![k] = next.product]
  /\ UNCHANGED <<uploadStage, uploadIdx, termCache, storeTerms, termCalls>>
  /\ UNCHANGED <<crawlVars, retryVars, pipeVars, pubVars, fnVars, runVars, fileVars>>

\* The call of product k deletes the product held under its SKU, waits
\* 5000 ms and goes on to the terms; a failed delete is caught and logged.
DeleteExisting(k) ==
  /\ uploadStage = "loop"
  /\ tasks[k].pc = "delete"
  /\ apiLog' = Append(apiLog,
                      [Request(k, tasks[k].retry.attempts, "delete", "products",
                               uploadProducts[k].sku)
                         EXCEPT !.held = catalog[uploadProducts[k].sku]])
  /\ \E ok \in BOOLEAN :
       /\ ~ok => apiErrors < MaxApiErrors
       /\ apiErrors' = IF ok THEN apiErrors ELSE apiErrors + 1
       /\ catalog' = IF ok THEN [catalog EXCEPT ![uploadProducts[k].sku] = "none"]
                     ELSE catalog
  /\ LET next == BeginTerms(tasks[k], uploadProducts[k])
     IN /\ tasks' = [tasks EXCEPT ![k] = next.task]
        /\ uploadProducts' = [uploadProducts EXCEPT ![k] = next.product]
  /\ UNCHANGED <<uploadStage, uploadIdx, termCache, storeTerms, termCalls>>
  /\ UNCHANGED <<pubStage, rawProducts, formattedProducts, pubIdx, failedProducts,
                 processedProducts, requested, dupItems>>
  /\ UNCHANGED <<crawlVars, retryVars, pipeVars, fnVars, runVars, fileVars>>

\* CachedId of a cache that is never read.
CachedIdNever(kind, name) == 0

\* this.categoryCache.get(name) or this.tagCache.get(name), 0 when the cache
\* does not have the name.
CachedId(kind, name) == termCache[kind][name]

\* The terms of the store a search for the name finds and the find of
\* getOrCreate picks: those of the kind whose name is the name but for case.
Matching(kind, name) ==
  {t \in storeTerms : t.kind = kind /\ LowerChar(t.name) = LowerChar(name)}

\* The id the store gives a new term.
NewId == 1 + Cardinality(storeTerms)

\* A getOrCreate call that has returned, as the log keeps it: the id it
\* returned (0 for null) and the requests it sent.
TermCall(kind, name, id, requests) ==
  [kind |-> kind, name |-> name, id |-> id, requests |-> requests]

\* The getOrCreate call of the loop of task t has returned id (0 for null):
\* a truthy id is pushed, and the loop moves on.
TermDone(t, id) ==
  [t EXCEPT !.ids = IF id # 0 THEN Append(@, id) ELSE @, !.pos = @ + 1, !.requests = 0]

\* getOrCreateCategory(name) or getOrCreateTag(name) of the call of product k,
\* up to its return or to its create request: the cached id is returned with
\* no request; else the store is searched, and a term found is cached and its
\* id returned; a failed search is caught and null returned.
TermLookup(k) ==
  /\ uploadStage = "loop"
  /\ tasks[k].pc = "lookup"
  /\ LET t == tasks[k]
         kind == t.kind
         name == t.names[t.pos]
         path == IF kind = "category" THEN "categories" ELSE "tags"
     IN IF CachedId(kind, name) # 0
        THEN LET next == AfterTerm(TermDone(t, CachedId(kind, name)), uploadProducts[k])
             IN /\ tasks' = [tasks EXCEPT ![k] = next.task]
                /\ uploadProducts' = [uploadProducts EXCEPT ![k] = next.product]
                /\ termCalls' = Append(termCalls, TermCall(kind, name, CachedId(kind, name), 0))
                /\ UNCHANGED <<termCache, apiLog, apiErrors>>
        ELSE /\ apiLog' = Append(apiLog, Request(k, t.retry.attempts, "get", path, name))
             /\ \E ok \in BOOLEAN :
                  /\ ~ok => apiErrors < MaxApiErrors
                  /\ apiErrors' = IF ok THEN apiErrors ELSE apiErrors + 1
                  /\ IF ~ok
                     THEN LET next == AfterTerm(TermDone(t, 0), uploadProducts[k])
                          IN /\ tasks' = [tasks EXCEPT ![k] = next.task]
                             /\ uploadProducts' = [uploadProducts EXCEPT ![k] = next.product]
                             /\ termCalls' = Append(termCalls, TermCall(kind, name, 0, 1))
                             /\ UNCHANGED termCache
                     ELSE IF Matching(kind, name) # {}
                     THEN \E found \in Matching(kind, name) :
                            LET next == AfterTerm(TermDone(t, found.id), uploadProducts[k])
                            IN /\ tasks' = [tasks EXCEPT ![k] = next.task]
                               /\ uploadProducts' =
                                    [uploadProducts EXCEPT ![k] = next.product]
                               /\ termCalls' =
                                    Append(termCalls, TermCall(kind, name, found.id, 1))
                               /\ termCache' = [termCache EXCEPT ![kind][name] = found.id]
                     ELSE /\ tasks' = [tasks EXCEPT ![k].pc = "create", ![k].requests = 1]
                          /\ UNCHANGED <<uploadProducts, termCalls, termCache>>
  /\ UNCHANGED <<uploadStage, uploadIdx, storeTerms>>
  /\ UNCHANGED <<crawlVars, retryVars, pipeVars, pubVars, fnVars, runVars, fileVars>>

\* The rest of a getOrCreate call whose search found nothing: the term is
\* created, cached and its id returned; a failed request is caught and null
\* returned.
TermCreate(k) ==
  /\ uploadStage = "loop"
  /\ tasks[k].pc = "create"
  /\ LET t == tasks[k]
         kind == t.kind
         name == t.names[t.pos]
         path == IF kind = "category" THEN "categories" ELSE "tags"
     IN /\ apiLog' = Append(apiLog, Request(k, t.retry.attempts, "post", path, name))
        /\ \E ok \in BOOLEAN :
             /\ ~ok => apiErrors < MaxApiErrors
             /\ apiErrors' = IF ok THEN apiErrors ELSE apiErrors + 1
             /\ LET id == IF ok THEN NewId ELSE 0
                    next == AfterTerm(TermDone([t EXCEPT !.pc = "lookup"], id),
                                      uploadProducts[k])
                IN /\ tasks' = [tasks EXCEPT ![k] = next.task]
                   /\ uploadProducts' = [uploadProducts EXCEPT ![k] = next.product]
                   /\ termCalls' = Append(termCalls, TermCall(kind, name, id, 2))
                   /\ storeTerms' =
                        IF ok THEN storeTerms \cup {[kind |-> kind, name |-> name, id |-> id]}
                        ELSE storeTerms
                   /\ termCache' = IF ok THEN [termCache EXCEPT ![kind][name] = id]
                                   ELSE termCache
  /\ UNCHANGED <<uploadStage, uploadIdx>>
  /\ UNCHANGED <<crawlVars, retryVars, pipeVars, pubVars, fnVars, runVars, fileVars>>

\* The ids of a list of {id} entries.
IdsOf(list) == [n \in 1..Len(list) |-> list[n].id]

\* The outcomes of the post of a product this run tries.
PostOutcomes == {"ok", "other"}

\* The call of product k posts the product object as it is now; the loop of
\* uploadWithRetry handles the outcome: a result ends the upload with a
\* success entry and the 5000 ms wait, an error is followed by the next
\* uploadProduct call or, after the last attempt, thrown to the upload loop,
\* which adds a failure entry and saves the results.
PostProduct(k) ==
  /\ uploadStage = "loop"
  /\ tasks[k].pc = "post"
  /\ LET t == tasks[k]
         p == uploadProducts[k]
     IN /\ apiLog' = Append(apiLog,
                            [Request(k, t.retry.attempts, "post", "products", p.sku)
                               EXCEPT !.categories = IdsOf(p.categories),
                                      !.tags = IdsOf(p.tags)])
        /\ \E outcome \in PostOutcomes :
             LET u == UploadStep(t.retry, outcome)
             IN /\ outcome # "ok" => apiErrors < MaxApiErrors
                /\ apiErrors' = IF outcome = "ok" THEN apiErrors ELSE apiErrors + 1
                /\ catalog' = IF outcome = "ok" THEN [catalog EXCEPT ![p.sku] = "publish"]
                              ELSE catalog
                /\ tasks' = [tasks EXCEPT ![k].retry = u,
                                          ![k].pc = IF u.pc = "done" THEN "after" ELSE "check"]
                /\ processedProducts' =
                     IF u.pc = "done" /\ u.result = "ok"
                     THEN Append(processedProducts, [item |-> k, sku |-> p.sku])
                     ELSE processedProducts
                /\ failedProducts' =
                     IF u.pc = "done" /\ u.result # "ok"
                     THEN Append(failedProducts,
                                 [item |-> k, sku |-> p.sku, error |-> ErrorMessage(u)])
                     ELSE failedProducts
  /\ UNCHANGED <<uploadStage, uploadProducts, uploadIdx, termCache, storeTerms, termCalls>>
  /\ UNCHANGED <<pubStage, rawProducts, formattedProducts, pubIdx, requested, dupItems>>
  /\ UNCHANGED <<crawlVars, retryVars, pipeVars, fnVars, runVars, fileVars>>

\* The end of the loop body for product k: the 5000 ms wait after a success
\* is over, or saveResults after a failure has returned or thrown.
UploadTurnEnd(k) ==
  /\ uploadStage = "loop"
  /\ tasks[k].pc = "after"
  /\ tasks' = [tasks EXCEPT ![k].pc = "returned"]
  /\ \E saved \in BOOLEAN :
       /\ tasks[k].retry.result = "ok" => saved
       /\ uploadStage' = IF saved THEN "loop" ELSE "threw"
  /\ UNCHANGED <<uploadProducts, uploadIdx, termCache, storeTerms, apiLog, termCalls,
                 apiErrors>>
  /\ UNCHANGED <<crawlVars, retryVars, pipeVars, pubVars, fnVars, runVars, fileVars>>

\* The products of the upload loop, by number.
Items == 1..Len(tasks)

UploadNext ==
  \/ UploadLoopBegin
  \/ UploadLoopTurn
  \/ \E k \in Items : CheckExisting(k)
  \/ \E k \in Items : DeleteExisting(k)
  \/ \E k \in Items : TermLookup(k)
  \/ \E k \in Items : TermCreate(k)
  \/ \E k \in Items : PostProduct(k)
  \/ \E k \in Items : UploadTurnEnd(k)

\* ------------------------------------------------- functions on their own

\* No function applied.
FnIdle ==
  /\ fnStage = "idle"
  /\ fnInclude = <<>>
  /\ fnExclude = <<>>
  /\ fnUrl = <<>>
  /\ fnUrl2 = <<>>
  /\ fnKey = <<>>
  /\ fnKey2 = <<>>
  /\ fnAgain = <<>>
  /\ fnAccept = "none"

\* No second crawl() call made.
RunIdle ==
  /\ runs = 0
  /\ firstFetchLog = <<>>
  /\ firstReturned = <<>>

\* No file read or written.
FilesIdle ==
  /\ failFile = Unseen
  /\ failedPagesFile = Unseen
  /\ productsFile = Unseen
  /\ exitCode = "none"

RestIdle == PubIdle /\ FnIdle /\ RunIdle /\ FilesIdle /\ WooIdle

\* ------------------------------------------------------------------ specs

\* No process call and no upload in progress.
RetryIdle == workers = <<>> /\ up = NoUpload

InitCrawl == CrawlInit /\ RetryIdle /\ PipeIdle /\ RestIdle

\* The crawler on its own: one crawl(startUrl) call of either PuppeteerCrawler.
SpecCrawl == InitCrawl /\ [][CrawlNext]_vars

\* The crawler on its own, where every call that is awaited settles: page.goto
\* and waitForSelector resolve or time out, and the event loop runs the
\* continuation of every settled call.
SpecCrawlLive == InitCrawl /\ [][CrawlNext]_vars /\ WF_vars(CrawlNext)

\* A second crawl(startUrl) call on the same crawler, with the start URL of the
\* first: a new browser and a new documents array; this.visited,
\* this.normalizedVisited and this.pagesProcessed are the constructor's and
\* are left as the first call left them.
CrawlAgain ==
  /\ crawlState \in {"done", "threw"}
  /\ runs = 0
  /\ runs' = 1
  /\ firstFetchLog' = fetchLog
  /\ firstReturned' = returned
  /\ stack' = <<Frame(startUrl, 0)>>
  /\ crawlState' = "running"
  /\ browserOpen' = TRUE
  /\ documents' = <<>>
  /\ fetchLog' = <<>>
  /\ pageLog' = <<>>
  /\ lastSkip' = NoSkip
  /\ reloads' = 0
  /\ returned' = <<>>
  /\ UNCHANGED <<impl, maxPages, maxDepth, includePaths, excludePaths,
                 visited, normalizedVisited, pagesProcessed, openPages, startUrl>>
  /\ UNCHANGED <<retryVars, pipeVars, pubVars, fnVars, fileVars, wooVars>>

CrawlTwiceNext == CrawlNext \/ CrawlAgain

\* Two crawl(startUrl) calls in a row on one crawler.
SpecCrawlTwice == InitCrawl /\ [][CrawlTwiceNext]_vars

\* The path lists of the crawl script: includePaths ["product/"] and
\* excludePaths ["blog/"], with p for product and q for blog.
ScriptIncludePaths == <<<<"p", "/">>>>

ScriptExcludePaths == <<<<"q", "/">>>>

\* A crawler of either copy built with the path lists of the crawl script.
InitCrawlFiltered ==
  /\ \E which \in {"src", "us"}, pages \in 1..MaxPagesOpt, depth \in 1..MaxDepthOpt :
       NewCrawler(which, pages, depth)
  /\ PathOptions(ScriptIncludePaths, ScriptExcludePaths)
  /\ RetryIdle
  /\ PipeIdle
  /\ RestIdle

\* One crawl(startUrl) call of a crawler that was given path lists.
SpecCrawlFiltered == InitCrawlFiltered /\ [][CrawlNext]_vars

\* The crawler createProductExtractionWorkflow builds.
WorkflowCrawler ==
  /\ NewCrawler("src", WorkflowMaxPages, WorkflowMaxDepth)
  /\ PathOptions(<<>>, <<>>)

\* One process(document) call on a product page and one uploadWithRetry call.
InitRetry ==
  /\ WorkflowCrawler
  /\ PipeIdle
  /\ RestIdle
  /\ workers = <<NewWorker(1, Doc(U_p), TRUE)>>
  /\ \E retries \in 1..MaxRetriesOpt : up = NewUpload(retries)

RetryExtract == ExtractAttempt(1) /\ UNCHANGED <<crawlVars, up, pipeVars, restVars>>

RetryUpload == UploadAttempt /\ UNCHANGED <<crawlVars, workers, pipeVars, restVars>>

RetryNext == RetryExtract \/ RetryUpload

\* The two retry loops, each fed any sequence of outcomes.
SpecRetry == InitRetry /\ [][RetryNext]_vars

InitPublish == WorkflowCrawler /\ RetryIdle /\ PipeIdle /\ RestIdle

\* One processProducts call on any input file and any store.
SpecPublish == InitPublish /\ [][PublishNext]_vars

InitPipeline == WorkflowCrawler /\ RetryIdle /\ PipeIdle /\ RestIdle

\* One run of the workflow (with or without specificUrls) or of the replay of
\* the failed pages.
SpecPipeline == InitPipeline /\ [][PipeNext]_vars

InitUpload == WorkflowCrawler /\ RetryIdle /\ PipeIdle /\ RestIdle

\* The upload loop of processProducts with the requests of uploadProduct and
\* of getOrCreateCategory / getOrCreateTag one at a time.
SpecUpload == InitUpload /\ [][UploadNext]_vars

\* ------------------------------------------- functions on their own: specs

\* The path lists a crawler under test is built with: none, "product",
\* "product/" (as the crawl script writes it), "/Product/", and two entries.
PathLists ==
  { <<>>,
    <<<<"p">>>>,
    <<<<"p", "/">>>>,
    <<<<"/", "P", "/">>>>,
    <<<<"k">>, <<"p">>>> }

\* The URLs _shouldCrawl is tried on: the root, /p/q (/product/9), /pq
\* (/products-list), /qp (/my-products), /q/p/q (/en/product/x), the same in
\* upper case or with a query, and one that does not parse.
FilterUrls ==
  { <<"a", "/">>,
    <<"a", "/", "p">>,
    <<"a", "/", "p", "/", "q">>,
    <<"a", "/", "p", "q">>,
    <<"a", "/", "q", "p">>,
    <<"a", "/", "q", "/", "p", "/", "q">>,
    <<"a", "/", "P", "/", "Q">>,
    <<"a", "/", "q">>,
    <<"a", "/", "q", "?", "p", "/">>,
    U_bad }

\* A new crawler built with any path lists, and a URL for its _shouldCrawl.
FilterInit ==
  /\ NewCrawler("src", WorkflowMaxPages, WorkflowMaxDepth)
  /\ fnInclude \in PathLists
  /\ fnExclude \in PathLists
  /\ PathOptions(fnInclude, fnExclude)
  /\ fnStage = "idle"
  /\ fnUrl \in FilterUrls
  /\ fnUrl2 = <<>>
  /\ fnKey = <<>>
  /\ fnKey2 = <<>>
  /\ fnAgain = <<>>
  /\ fnAccept = "none"

\* _crawlPage marks a first URL: this.visited.add(url),
\* this.normalizedVisited.add(normalizedUrl), this.pagesProcessed++.
FilterVisit ==
  /\ fnStage = "idle"
  /\ visited = {}
  /\ visited' = {U_root}
  /\ normalizedVisited' = {NormalizeUrl(U_root)}
  /\ pagesProcessed' = pagesProcessed + 1
  /\ UNCHANGED <<impl, maxPages, maxDepth, includePaths, excludePaths,
                 crawlState, browserOpen, documents,
                 stack, openPages, fetchLog, pageLog, lastSkip, reloads, startUrl, returned>>
  /\ UNCHANGED nonCrawlVars

\* One call _shouldCrawl(fnUrl): true, false, or the TypeError of new URL().
ShouldCrawlCall ==
  /\ fnStage = "idle"
  /\ fnStage' = "filtered"
  /\ fnAccept' = IF ~Parses(fnUrl) THEN "threw"
                 ELSE IF ShouldCrawl(fnUrl) THEN "accept" ELSE "reject"
  /\ UNCHANGED <<fnInclude, fnExclude, fnUrl, fnUrl2, fnKey, fnKey2, fnAgain>>
  /\ UNCHANGED <<crawlVars, retryVars, pipeVars, pubVars, runVars, fileVars, wooVars>>

FilterNext == FilterVisit \/ ShouldCrawlCall

\* String.prototype.toUpperCase on one character.
UpperChar(c) ==
  CASE c = "a" -> "A"
    [] c = "b" -> "B"
    [] c = "p" -> "P"
    [] c = "q" -> "Q"
    [] c = "k" -> "K"
    [] c = "f" -> "F"
    [] OTHER -> c

\* s with the characters at the places in I in upper case.
UpperAt(s, I) == [i \in 1..Len(s) |-> IF i \in I THEN UpperChar(s[i]) ELSE s[i]]

\* n slashes.
Slashes(n) == [i \in 1..n |-> "/"]

\* The hosts of the URLs handed to _normalizeUrl; new URL() rejects "[".
NormHosts == {<<"a">>, <<"[">>}

\* Their paths, without trailing slashes.
NormPaths == {<<>>, <<"/", "p">>, <<"/", "p", "/", "q">>}

\* Query strings and fragments a URL may carry.
Queries == {<<>>, <<"?", "K", "/">>}

Fragments == {<<>>, <<"#", "f">>}

\* The URLs of one host and path: any letter case, any number of trailing
\* slashes, with or without a query string and a fragment.
Variants(host, path) ==
  { UpperAt(host, I) \o UpperAt(path, J) \o Slashes(n) \o q \o f :
      I \in SUBSET (1..Len(host)), J \in SUBSET (1..Len(path)),
      n \in 0..MaxSlashes, q \in Queries, f \in Fragments }

\* Two URLs of the same host and path for _normalizeUrl.
NormalizeInit ==
  /\ WorkflowCrawler
  /\ RetryIdle
  /\ PipeIdle
  /\ PubIdle
  /\ RunIdle
  /\ FilesIdle
  /\ WooIdle
  /\ fnStage = "idle"
  /\ fnInclude = <<>>
  /\ fnExclude = <<>>
  /\ \E host \in NormHosts, path \in NormPaths :
       /\ fnUrl \in Variants(host, path)
       /\ fnUrl2 \in Variants(host, path)
  /\ fnKey = <<>>
  /\ fnKey2 = <<>>
  /\ fnAgain = <<>>
  /\ fnAccept = "none"

\* _normalizeUrl(fnUrl) and _normalizeUrl(fnUrl2).
NormalizeCall ==
  /\ fnStage = "idle"
  /\ fnStage' = "keyed"
  /\ fnKey' = NormalizeUrl(fnUrl)
  /\ fnKey2' = NormalizeUrl(fnUrl2)
  /\ UNCHANGED <<fnInclude, fnExclude, fnUrl, fnUrl2, fnAgain, fnAccept>>
  /\ UNCHANGED <<crawlVars, retryVars, pipeVars, pubVars, runVars, fileVars, wooVars>>

\* _normalizeUrl applied to the key it returned.
NormalizeAgain ==
  /\ fnStage = "keyed"
  /\ fnStage' = "done"
  /\ fnAgain' = NormalizeUrl(fnKey)
  /\ UNCHANGED <<fnInclude, fnExclude, fnUrl, fnUrl2, fnKey, fnKey2, fnAccept>>
  /\ UNCHANGED <<crawlVars, retryVars, pipeVars, pubVars, runVars, fileVars, wooVars>>

NormalizeNext == NormalizeCall \/ NormalizeAgain

\* _shouldCrawl on its own: any path lists, any URL, before and after the
\* first visit.
InitFilter ==
  FilterInit /\ RetryIdle /\ PipeIdle /\ PubIdle /\ RunIdle /\ FilesIdle /\ WooIdle

SpecFilter == InitFilter /\ [][FilterNext]_vars

\* _normalizeUrl on its own.
SpecNormalize == NormalizeInit /\ [][NormalizeNext]_vars

\* ------------------------------------------------------- crawler: claims

\* The URLs of the documents of the pages of pageLog that were leaves, in order.
RECURSIVE LeafDocs(_)
LeafDocs(log) ==
  IF log = <<>> THEN <<>>
  ELSE LET rest == LeafDocs(SubSeq(log, 1, Len(log) - 1))
           last == log[Len(log)]
       IN IF last.leaf THEN Append(rest, Doc(last.url)) ELSE rest

\* lastSkip was turned away by the page bound alone: it was in depth, and
\* neither its raw URL nor its normalized key is visited even now.
SkippedByPageBound ==
  /\ lastSkip # NoSkip
  /\ lastSkip.depth < maxDepth
  /\ lastSkip.url \notin visited
  /\ NormalizeUrl(lastSkip.url) \notin normalizedVisited

\* lastSkip was turned away by the normalized key alone: it was in depth, the
\* page bound was not reached and its raw URL is not visited.
SkippedByNormalizedKey ==
  /\ lastSkip # NoSkip
  /\ lastSkip.depth < maxDepth
  /\ Cardinality(visited) < maxPages
  /\ lastSkip.url \notin visited
  /\ NormalizeUrl(lastSkip.url) \in normalizedVisited

\* C1: in every state of a crawl run the number of pages fetched (page.goto
\* calls of the run) is at most maxPages.
C1_FetchedAtMostMaxPages == Len(fetchLog) <= maxPages

\* C1 witness: maxPages pages were fetched and a further visit, in depth and of
\* a URL never seen, was turned away by the page bound.
C1_Witness == Len(fetchLog) = maxPages /\ SkippedByPageBound

\* The normalized key of each URL of the site.
KeyOf == [u \in Urls |-> NormalizeUrl(u)]

\* C2: no two fetches of a run have the same normalized key.
C2_NoNormalizedKeyTwice ==
  \A i, j \in 1..Len(fetchLog) :
    i < j => KeyOf[fetchLog[i].url] # KeyOf[fetchLog[j].url]

\* C2 witness: the link A/P/?k#f was discovered after a/p was fetched, differs
\* from it in case, trailing slash, query and fragment only, and was skipped.
C2_Witness ==
  /\ SkippedByNormalizedKey
  /\ lastSkip.url = U_pVar
  /\ \E i \in 1..Len(fetchLog) : fetchLog[i].url = U_p
  /\ \A i \in 1..Len(fetchLog) : fetchLog[i].url # U_pVar

\* C3: when crawl() has returned, the returned list holds exactly the records
\* of the pages that were fetched and classified as leaf, in fetch order.
C3_ReturnsTheLeafPages == crawlState = "done" => returned = LeafDocs(pageLog)

\* --------------------------------------------------- retry loops: claims

\* The error kinds of an event log, in order.
Kinds(events) == [n \in 1..Len(events) |-> events[n].kind]

\* The waits of an event log, in order.
Waits(events) == [n \in 1..Len(events) |-> events[n].wait]

\* C7: in every process call, a rate-limit failure that is the n-th failure with
\* n < 3 is followed by a 90000 ms wait and attempt n + 1; once 3 attempts have
\* failed the call has returned null after exactly 3 attempts.
C7_RateLimitWait ==
  \A k \in 1..Len(workers) :
    LET w == workers[k]
    IN /\ \A n \in 1..Len(w.events) :
            (w.events[n].kind = "rate" /\ n < 3)
              => w.events[n].wait = 90000 /\ w.attempts >= n + 1
       /\ Len(w.events) >= 3
            => w.pc = "done" /\ w.result = "null" /\ w.attempts = 3

\* C7 witness: a process call whose three attempts all failed with a rate-limit
\* error: two waits of 90000 ms, then null.
C7_Witness ==
  \E k \in 1..Len(workers) :
    /\ Kinds(workers[k].events) = <<"rate", "rate", "rate">>
    /\ Waits(workers[k].events) = <<90000, 90000, 0>>
    /\ workers[k].result = "null"

\* C8: the extractor is invoked at most 3 times for one page and uploadProduct
\* at most `retries` times for one product, whatever the errors; after that
\* many failures process has returned null and uploadWithRetry has thrown.
C8_AttemptsBounded ==
  /\ \A k \in 1..Len(workers) :
       /\ workers[k].attempts <= 3
       /\ Len(workers[k].events) = 3
            => workers[k].pc = "done" /\ workers[k].result = "null"
  /\ up.attempts <= up.retries
  /\ Len(up.events) = up.retries => up.pc = "done" /\ up.result = "threw"

\* C8 witness: both loops ran out of attempts on a mix of error kinds.
C8_Witness ==
  /\ \E k \in 1..Len(workers) :
       /\ Kinds(workers[k].events) = <<"rate", "conflict", "other">>
       /\ workers[k].attempts = 3
       /\ workers[k].result = "null"
  /\ Kinds(up.events) = <<"conflict", "other", "rate">>
  /\ up.attempts = 3
  /\ up.result = "threw"

\* C9: in uploadWithRetry, a failed attempt i that is not the last allowed one
\* and whose error is not a processing conflict is followed by a wait of
\* exactly 5000 * 2^i ms.
C9_ExponentialBackoff ==
  \A n \in 1..Len(up.events) :
    LET e == up.events[n]
    IN (e.kind \in {"rate", "other"} /\ e.i < up.retries - 1) => e.wait = 5000 * 2^(e.i)

\* C9 witness: attempts 0 and 1 failed with errors that are no conflict, and
\* were followed by 5000 and 10000 ms.
C9_Witness ==
  /\ Len(up.events) >= 2
  /\ up.retries = 3
  /\ up.events[1] = [i |-> 0, kind |-> "other", wait |-> 5000]
  /\ up.events[2] = [i |-> 1, kind |-> "rate", wait |-> 10000]

\* Both loops have ended, had the same bound and met the same error kinds.
SameErrors(w) ==
  /\ w.pc = "done"
  /\ up.pc = "done"
  /\ up.retries = 3
  /\ Kinds(w.events) = Kinds(up.events)

C4_EndToEnd ==
  (/\ mode = "crawl"
   /\ stage = "done"
   /\ pageLog = <<[url |-> WorkflowStartUrl, leaf |-> FALSE, nlinks |-> 2]>>)
    => /\ Len(products) = 1
       /\ Len(failed) = 1
       /\ Cardinality(visited) = 3

\* The data of the items 1..n whose worker returned a value, in input order.
RECURSIVE ExpectedProducts(_)
ExpectedProducts(n) ==
  IF n = 0 THEN <<>>
  ELSE IF workerResult[n] = "value"
  THEN Append(ExpectedProducts(n - 1), Data(n, crawledPages[n]))
  ELSE ExpectedProducts(n - 1)

\* The items 1..n whose worker returned no value, in input order.
RECURSIVE ExpectedFailed(_)
ExpectedFailed(n) ==
  IF n = 0 THEN <<>>
  ELSE IF workerResult[n] # "value"
  THEN Append(ExpectedFailed(n - 1), crawledPages[n])
  ELSE ExpectedFailed(n - 1)

\* C5: when the batch loop has ended, every input item has been handled by its
\* worker; the items whose worker returned a value are in products and all the
\* others are in failed as the original input, so each item is in exactly one
\* of the two lists.
C5_EveryItemInOneList ==
  stage = "done" =>
    /\ Len(workerResult) = Len(crawledPages)
    /\ \A n \in 1..Len(crawledPages) : workerResult[n] \in {"value", "null"}
    /\ products = ExpectedProducts(Len(crawledPages))
    /\ failed = ExpectedFailed(Len(crawledPages))
    /\ Len(products) + Len(failed) = Len(crawledPages)

\* C5 witness: the extraction of the first item, a product page, failed; the
\* second item, of the same chunk, and the first item of the next chunk gave
\* a product all the same.
C5_Witness ==
  /\ stage = "done"
  /\ Len(crawledPages) > batchSize
  /\ crawledPages[1] = Doc(U_p)
  /\ workerResult[1] = "null"
  /\ workerResult[2] = "value"
  /\ workerResult[batchSize + 1] = "value"
  /\ Len(failed) >= 1
  /\ failed[1] = crawledPages[1]
  /\ Len(products) >= 2

\* The number of the chunk of input item n, counting from 0.
ChunkOf(n) == (n - 1) \div batchSize

\* C6: the chunk in progress is the next batchSize items of the input, in input
\* order; whenever the worker of an item was started, every item of an earlier
\* chunk has settled; never more than batchSize workers are in flight.
C6_ChunksInOrder ==
  /\ stage = "batch" =>
       /\ batchStart % batchSize = 0
       /\ Len(workers) = Min(batchSize, Len(crawledPages) - batchStart)
       /\ \A k \in 1..Len(workers) :
            workers[k].item = batchStart + k /\ workers[k].doc = crawledPages[batchStart + k]
       /\ started = 1..(batchStart + Len(workers))
  /\ \A a \in started : \A b \in 1..Len(crawledPages) :
       (batchSize > 0 /\ ChunkOf(b) < ChunkOf(a)) => b \in settled
  /\ Cardinality(started \ settled) <= batchSize

\* C6 witness: a second chunk is in progress with batchSize workers in flight,
\* and all the items of the first chunk have settled.
C6_Witness ==
  /\ stage = "batch"
  /\ batchStart >= batchSize
  /\ Cardinality(started \ settled) = batchSize
  /\ settled = 1..batchStart

\* ------------------------------------------------------- publish: claims

\* The name, the sku or the price of product p is missing or empty.
Missing(p) == p.name = "" \/ p.sku = "" \/ (p.price.regular = "" /\ p.price.current = "")

\* The number of entries of a result list for input item k.
EntriesOf(entries, k) == Cardinality({n \in 1..Len(entries) : entries[n].item = k})

\* The loops of processProducts are running or have ended.
PastFormatLoop == pubStage \in {"upload", "wait", "save", "done"}

\* C11: for a product whose name, sku or price is missing no API request is
\* ever sent; once the format loop has run it has one failure entry and no
\* success entry; and when processProducts has ended every other product has
\* been uploaded or has failed on its own.
C11_InvalidNeverUploaded ==
  /\ \A k \in 1..Len(rawProducts) :
       Missing(rawProducts[k]) =>
         /\ \A r \in requested : r.item # k
         /\ PastFormatLoop =>
              /\ EntriesOf(failedProducts, k) = 1
              /\ EntriesOf(processedProducts, k) = 0
  /\ pubStage = "done" =>
       \A k \in 1..Len(rawProducts) :
         ~Missing(rawProducts[k]) =>
           /\ [item |-> k, kind |-> "post"] \in requested
           /\ EntriesOf(failedProducts, k) + EntriesOf(processedProducts, k) = 1

\* C11 witness: the first product had no sku and the second, complete, was
\* uploaded after it.
C11_Witness ==
  /\ pubStage = "done"
  /\ Len(rawProducts) = 2
  /\ rawProducts[1].sku = ""
  /\ EntriesOf(failedProducts, 1) = 1
  /\ EntriesOf(processedProducts, 2) = 1
  /\ [item |-> 2, kind |-> "post"] \in requested

\* C12: for a product whose SKU an upload found published in the store, no
\* create request is sent, no second attempt is made and no success is recorded.
C12_DuplicateSkuFatal ==
  \A k \in dupItems :
    /\ [item |-> k, kind |-> "post"] \notin requested
    /\ EntriesOf(processedProducts, k) = 0
    /\ (pubStage \in {"upload", "save"} /\ formattedProducts[pubIdx].item = k)
         => up.attempts <= 1 /\ up.pc = "done"

\* The kind of the last error of an event log of uploadWithRetry, "none" if
\* no attempt threw.
RECURSIVE LastErrorKind(_)
LastErrorKind(events) ==
  IF events = <<>> THEN "none"
  ELSE IF events[Len(events)].kind \in ErrorKinds THEN events[Len(events)].kind
  ELSE LastErrorKind(SubSeq(events, 1, Len(events) - 1))

\* C13: when processProducts has ended every product of the input is in
\* exactly one of processedProducts and failedProducts; a failure entry of an
\* incomplete product carries the formatting error, that of any other product
\* the message of an upload error; and the entry written when uploadWithRetry
\* threw carries the message of the last error of that upload, or that of the
\* error made up when no attempt threw.
C13_OneListEach ==
  /\ pubStage = "done" =>
       \A k \in 1..Len(rawProducts) :
         EntriesOf(processedProducts, k) + EntriesOf(failedProducts, k) = 1
  /\ \A n \in 1..Len(failedProducts) :
       LET e == failedProducts[n]
       IN IF Missing(rawProducts[e.item])
          THEN e.error = "format"
          ELSE e.error \in ErrorKinds \cup {"attempts"}
  /\ (pubStage = "save" /\ up.pc = "done") =>
       LET e == failedProducts[Len(failedProducts)]
       IN /\ e.item = formattedProducts[pubIdx].item
          /\ e.error = IF LastErrorKind(up.events) = "none" THEN "attempts"
                       ELSE LastErrorKind(up.events)

\* C13 witness: of two complete products the first was uploaded and the second
\* failed three times, last on a rate-limit error, which its failure entry
\* carries.
C13_Witness ==
  /\ pubStage = "done"
  /\ Len(rawProducts) = 2
  /\ processedProducts = <<[item |-> 1, sku |-> rawProducts[1].sku]>>
  /\ failedProducts = <<[item |-> 2, sku |-> rawProducts[2].sku, error |-> "rate"]>>

\* ------------------------------------------------ crawler errors: claims

\* The link loop of every _crawlPage call that has reached its finally block
\* went through the whole link list of its page.
LinkLoopsComplete ==
  \A i \in 1..Len(stack) :
    stack[i].pc = "close" => stack[i].idx > stack[i].nlinks

\* C14: an error raised while opening, fetching or parsing one URL stays with
\* that URL: crawl() does not throw, every document of the output is a page
\* that loaded and was read as a product page, and (in the copy that follows
\* links) the link loop of the parent goes on to the links after the failed one.
C14_ErrorsContained ==
  /\ crawlState \notin {"throwing", "threw"}
  /\ \A k \in 1..Len(documents) :
       \E j \in 1..Len(pageLog) : pageLog[j].url = documents[k].url /\ pageLog[j].leaf
  /\ impl = "us" => LinkLoopsComplete

\* C15: once crawl() has returned or thrown, the browser it launched is closed.
C15_BrowserClosed ==
  crawlState \in {"done", "threw"} => ~browserOpen

\* crawl() has thrown out of the traversal, and the browser is closed.
C15_Witness ==
  /\ crawlState = "threw"
  /\ pagesProcessed > 0
  /\ ~browserOpen

\* ------------------------------------------------ crawler filter: claims

\* C16: every URL fetched after the start URL passed the path filter and has
\* the host of startUrl.
C16_FetchedPassedFilter ==
  \A i \in 2..Len(fetchLog) :
    /\ ShouldCrawl(fetchLog[i].url)
    /\ Hostname(fetchLog[i].url) = Hostname(startUrl)

\* --------------------------------------------------- path filter: claims

\* The lower-cased path of the URL _shouldCrawl was called with.
FilterPath == ToLower(Pathname(fnUrl))

\* _shouldCrawl has returned for a URL that parses.
Filtered == fnStage = "filtered" /\ Parses(fnUrl)

\* path is "/" + entry, or goes on with "/" after it: entry is a prefix of
\* the path made of whole segments.
HasPathPrefix(path, entry) ==
  \/ path = <<"/">> \o entry
  \/ StartsWith(path, <<"/">> \o entry \o <<"/">>)

\* The bootstrap case: the root path while nothing is visited.
Bootstrap == FilterPath = <<"/">> /\ Cardinality(visited) = 0

\* C17: with include entries and outside the bootstrap case, a URL is accepted
\* exactly when some include entry is a prefix of its path made of whole
\* segments: "product" accepts /product/9 and rejects /products-list.
C17_IncludeIsPathPrefix ==
  (Filtered /\ Len(includePaths) > 0 /\ ~Bootstrap) =>
    (fnAccept = "accept" <=>
       \E k \in 1..Len(includePaths) : HasPathPrefix(FilterPath, includePaths[k]))

\* C18 as stated: with include entries and nothing visited, any URL is accepted.
C18_AnyStartAccepted ==
  (Filtered /\ Len(includePaths) > 0 /\ Cardinality(visited) = 0) =>
    fnAccept = "accept"

\* Some include entry, after "/", starts the path.
StartsWithInclude ==
  \E k \in 1..Len(includePaths) : StartsWith(FilterPath, <<"/">> \o includePaths[k])

\* C18, amended: with include entries and nothing visited, the URL of path "/"
\* is accepted whatever the entries are, and a URL of another path only when
\* its path starts with "/" + an include entry; once a URL is visited the
\* path "/" is treated like any other.
C18_RootStartAccepted ==
  (Filtered /\ Len(includePaths) > 0) =>
    /\ Bootstrap => fnAccept = "accept"
    /\ ~Bootstrap => (fnAccept = "accept" <=> StartsWithInclude)

\* Nothing was visited and the URL of path "/" was accepted although its path
\* starts with no include entry.
C18_Witness ==
  /\ Filtered
  /\ Len(includePaths) > 0
  /\ Cardinality(visited) = 0
  /\ FilterPath = <<"/">>
  /\ ~StartsWithInclude
  /\ fnAccept = "accept"

\* C19 as stated: with no include entries, a URL is rejected exactly when its
\* lower-cased path contains an entry of the excludePaths option (taken
\* without regard to case).
C19_ExcludeAsGiven ==
  (Filtered /\ Len(fnInclude) = 0) =>
    (fnAccept = "reject" <=>
       \E k \in 1..Len(fnExclude) : Includes(FilterPath, ToLower(fnExclude[k])))

\* An entry of a path list as the filter compares it: lower-cased, without
\* leading and trailing slashes.
Trimmed(entry) == StripLeadingSlashes(StripTrailingSlashes(ToLower(entry)))

\* The path contains some exclude entry, trimmed.
ContainsExclude ==
  \E k \in 1..Len(fnExclude) : Includes(FilterPath, Trimmed(fnExclude[k]))

\* C19, amended: with include entries the exclude list plays no part (a path
\* that starts with an include entry is accepted though it contains an exclude
\* entry); with none, a URL is rejected exactly when its lower-cased path
\* contains some exclude entry, lower-cased and stripped of its leading and
\* trailing slashes; with both lists empty every URL is accepted.
C19_ExcludeTrimmed ==
  Filtered =>
    /\ (Len(fnInclude) > 0 /\ StartsWithInclude) => fnAccept = "accept"
    /\ Len(fnInclude) = 0 => (fnAccept = "reject" <=> ContainsExclude)
    /\ (Len(fnInclude) = 0 /\ Len(fnExclude) = 0) => fnAccept = "accept"

\* With no include entries, a path was rejected that contains the exclude
\* entry only once the entry's slashes are stripped.
C19_Witness ==
  /\ Filtered
  /\ Len(fnInclude) = 0
  /\ ContainsExclude
  /\ ~\E k \in 1..Len(fnExclude) : Includes(FilterPath, ToLower(fnExclude[k]))
  /\ fnAccept = "reject"

\* ----------------------------------------------------- normalize: claims

\* C20: two URLs that differ only in letter case, trailing slashes, query
\* string and fragment get the same key; the key of a key is the key itself;
\* an input that does not parse comes back unchanged.
C20_NormalizeKey ==
  /\ fnStage \in {"keyed", "done"} =>
       /\ Parses(fnUrl) => fnKey = fnKey2
       /\ ~Parses(fnUrl) => fnKey = fnUrl
       /\ ~Parses(fnUrl2) => fnKey2 = fnUrl2
  /\ fnStage = "done" => fnAgain = fnKey

\* Two different spellings of one URL, in letter case and in what follows the
\* path, got one key, which differs from both and is its own key.
C20_Witness ==
  /\ fnStage = "done"
  /\ Parses(fnUrl)
  /\ ToLower(fnUrl) # ToLower(fnUrl2)
  /\ fnUrl # ToLower(fnUrl)
  /\ fnKey = fnKey2
  /\ fnKey \notin {fnUrl, fnUrl2}
  /\ fnAgain = fnKey

\* ------------------------------------------------- crawl order: claims

\* The _crawlPage calls in progress form one chain: every call but the
\* innermost is suspended in its link loop, on the await of the call one
\* level deeper, and at most one call is between page.goto and the end of
\* its page's reading.
OneChain ==
  /\ \A i \in 1..(Len(stack) - 1) :
       /\ stack[i].pc = "links"
       /\ stack[i].idx \in 2..(stack[i].nlinks + 1)
       /\ stack[i + 1].depth = stack[i].depth + 1
  /\ Cardinality({i \in 1..Len(stack) : stack[i].pc \in {"goto", "wait", "process"}}) <= 1

\* The link loop of a call moves on by one link at a time, and only while the
\* call is the innermost one: the visit of the link before has returned.
LoopStepsInOrder ==
  \A i \in 1..Len(stack) :
    (i <= Len(stack') /\ stack'[i].idx # stack[i].idx) =>
      /\ i = Len(stack)
      /\ stack'[i].idx = stack[i].idx + 1

\* C21: the crawl is sequential and depth-first: one fetch at a time, the
\* links of a page taken in list order, and the visit of a link, with all
\* that it reaches, over before the next link of the page is begun.
C21_DepthFirstInOrder == [][OneChain' /\ LoopStepsInOrder]_vars

\* The second link of the start page is being fetched, after the visit of the
\* first one returned.
C21_Witness ==
  /\ Len(stack) = 2
  /\ stack[1].idx = 3
  /\ Top.pc = "goto"
  /\ lastSkip # NoSkip

\* The page of the i-th call in progress was read as a leaf (a product page).
IsLeafCall(i) ==
  \E j \in 1..Len(pageLog) : pageLog[j].url = stack[i].url /\ pageLog[j].leaf

\* C22: the links of a page are followed only when the page is not a leaf: the
\* call of a leaf page never enters the link loop, and the call of any other
\* page ends only once the loop is past the last link of the page.
C22_LinksOnlyFromNonLeaf ==
  \A i \in 1..Len(stack) :
    /\ IsLeafCall(i) => stack[i].pc # "links"
    /\ (~IsLeafCall(i) /\ stack[i].pc = "close") => stack[i].idx > stack[i].nlinks

\* --------------------------------------------------- crawl runs: claims

\* C23: a crawl(startUrl) call starts from an empty visited set and a zero
\* processed count, so a second call on the same crawler with the same start
\* URL fetches the start page again, as the first call did.
C23_VisitedPerRun ==
  /\ (runs = 1 /\ crawlState = "running" /\ stack = <<Frame(startUrl, 0)>>) =>
       /\ visited = {}
       /\ normalizedVisited = {}
       /\ pagesProcessed = 0
  /\ (runs = 1 /\ crawlState = "done" /\ Len(firstFetchLog) > 0) =>
       /\ Len(fetchLog) > 0
       /\ fetchLog[1] = firstFetchLog[1]

\* ---------------------------------------------------- URL list: claims

\* a is b with some of its elements left out.
RECURSIVE IsSubSeq(_, _)
IsSubSeq(a, b) ==
  IF a = <<>> THEN TRUE
  ELSE IF b = <<>> THEN FALSE
  ELSE IF Head(a) = Head(b) THEN IsSubSeq(Tail(a), Tail(b))
  ELSE IsSubSeq(a, Tail(b))

\* The URLs of the list the loop of the crawl node has come to.
ListedSoFar == SubSeq(specificUrls, 1, urlIdx)

\* C24: with a URL list, the crawl node takes the URLs one at a time in list
\* order: the pages fetched are the URLs of the list up to the one reached,
\* each fetched once and alone, in list order; the browser of a fetch is closed before
\* the next one is launched; a wait of 2000 ms was made after each fetch
\* before the next; and the pages handed on are pages of the list in list order.
C24_UrlListInOrder ==
  mode = "urls" =>
    /\ [k \in 1..Len(fetchLog) |-> fetchLog[k].url] =
         IF stage \in {"single", "singleOpen", "failed"}
         THEN SubSeq(specificUrls, 1, urlIdx - 1)
         ELSE ListedSoFar
    /\ \A k \in 1..Len(fetchLog) : fetchLog[k].depth = 0
    /\ stage # "singleOpen" => ~browserOpen
    /\ stage \in {"single", "singleOpen"} =>
         waitLog = [k \in 1..(urlIdx - 1) |-> SinglePageDelay]
    /\ IsSubSeq([k \in 1..Len(crawledPages) |-> crawledPages[k].url], ListedSoFar)
    /\ \A k \in 1..Len(crawledPages) : Parses(crawledPages[k].url)

\* Of three listed URLs the second gave null: the first and the third are
\* handed on, in that order, after three fetches and three waits.
C24_Witness ==
  /\ mode = "urls"
  /\ stage = "process"
  /\ specificUrls = <<U_p, U_bad, U_other>>
  /\ Len(fetchLog) = 3
  /\ crawledPages = <<Doc(U_p), Doc(U_other)>>
  /\ waitLog = <<SinglePageDelay, SinglePageDelay, SinglePageDelay>>
  /\ ~browserOpen

\* ------------------------------------------------------ replay: claims

\* C25: a replay gives one new product for every page that now extracts and
\* leaves in its failure list exactly the pages that failed again; over two
\* pages that both extract it gives two products and an empty failure list,
\* and ends normally.
C25_ReplayResult ==
  (mode = "replay" /\ stage = "exited") =>
    /\ products = ExpectedProducts(Len(crawledPages))
    /\ failed = ExpectedFailed(Len(crawledPages))
    /\ (Len(crawledPages) = 2 /\ workerResult = <<"value", "value">>) =>
         /\ Len(products) = 2
         /\ failed = <<>>
         /\ exitCode = "ok"

\* C26: after a replay that ended normally, the file the replay read its
\* pages from holds exactly the pages that failed again, or is gone when none
\* did, and extracted_products.json holds what it held before followed by
\* the new products.
C26_FailureFileReplaced ==
  (mode = "replay" /\ stage = "exited" /\ exitCode = "ok") =>
    /\ failFile = IF failed = <<>> THEN Absent ELSE Holding(failed)
    /\ products # <<>> =>
         LET held == productsFile.items
         IN /\ productsFile.state = "present"
            /\ Len(held) >= Len(products)
            /\ SubSeq(held, Len(held) - Len(products) + 1, Len(held)) = products

\* ------------------------------------------------- batch delays: claims

\* The 90000 ms waits made so far.
BatchDelays == Cardinality({k \in 1..Len(waitLog) : waitLog[k] = BatchDelay})

\* The chunks of n items by chunks of size: ceil(n / size).
Chunks(n, size) == (n + size - 1) \div size

\* C27: the batch loop waits 90000 ms once after every chunk that is not the
\* last, and not after the last: while chunk c (from 0) runs c waits were
\* made, a wait is only made when items remain, and a run over N items with
\* batch size B ends with ceil(N / B) - 1 waits, none for N <= B.
C27_DelayBetweenChunks ==
  /\ stage = "batch" => BatchDelays = batchStart \div batchSize
  /\ stage = "batchWait" =>
       /\ BatchDelays = batchStart \div batchSize + 1
       /\ batchStart + batchSize < Len(crawledPages)
       /\ waitLog[Len(waitLog)] = BatchDelay
  /\ (stage \in {"done", "exited"} /\ batchSize > 0) =>
       BatchDelays = IF Len(crawledPages) <= batchSize THEN 0
                     ELSE Chunks(Len(crawledPages), batchSize) - 1

\* A run over more items than two chunks hold has ended after two waits.
C27_Witness ==
  /\ stage = "done"
  /\ Len(crawledPages) > batchSize
  /\ Len(crawledPages) % batchSize = 0
  /\ BatchDelays = Len(crawledPages) \div batchSize - 1
  /\ BatchDelays >= 1

\* -------------------------------------------------- batch order: claims

\* C28: the list of successes and the list of failures of a batch run are each
\* the input with some items left out, in input order, in whatever order the
\* workers of a chunk resolve: the products are those of input items of
\* increasing number, and the failed documents are a subsequence of the input.
C28_ListsInInputOrder ==
  /\ \A k \in 1..Len(products) :
       /\ products[k].item \in 1..Len(crawledPages)
       /\ products[k] = Data(products[k].item, crawledPages[products[k].item])
       /\ k > 1 => products[k - 1].item < products[k].item
  /\ IsSubSeq(failed, crawledPages)
  /\ Len(failed) + Len(products) <= Len(crawledPages)

\* The run has ended with two different failed documents, the first and the
\* last item of the input, in input order, and a product of an item between.
C28_Witness ==
  /\ stage = "done"
  /\ Len(crawledPages) = 3
  /\ crawledPages[1] # crawledPages[3]
  /\ failed = <<crawledPages[1], crawledPages[3]>>
  /\ products = <<Data(2, crawledPages[2])>>

\* ---------------------------------------------- upload conflicts: claims

\* C29: in uploadWithRetry an attempt that fails with the "already under
\* processing" conflict is followed by a wait of 30000 ms, whatever the loop
\* counter, and takes one turn of the loop like any other failed attempt: the
\* n-th failure of any kind is that of loop counter n - 1, and no more than
\* `retries` attempts are made.
C29_ConflictWaitsThirtySeconds ==
  /\ \A n \in 1..Len(up.events) :
       LET e == up.events[n]
       IN /\ IsProcessingConflict(e.kind) => e.wait = 30000
          /\ e.i = n - 1
  /\ Len(up.events) <= up.retries
  /\ up.attempts <= up.retries

\* Three attempts in a row met the conflict: each was followed by 30000 ms and
\* the third was the last.
C29_Witness ==
  /\ up.retries = 3
  /\ Kinds(up.events) = <<"conflict", "conflict", "conflict">>
  /\ Waits(up.events) = <<30000, 30000, 30000>>
  /\ up.attempts = 3
  /\ up.pc = "done"
  /\ up.result = "threw"

\* --------------------------------------------------- skipped visits: claims

\* A _crawlPage call is at its entry with a URL or a depth that is out of
\* bounds or already visited.
AtSkippedVisit ==
  /\ crawlState = "running"
  /\ stack # <<>>
  /\ Top.pc = "entry"
  /\ \/ Top.depth >= maxDepth
     \/ Cardinality(visited) >= maxPages
     \/ Top.url \in visited
     \/ KeyOf[Top.url] \in normalizedVisited

\* C30: the visit of a URL at depth >= maxDepth, or with maxPages URLs
\* visited, or whose raw or normalized key is visited, does nothing: the call
\* returns with no page opened or fetched and with the visited sets, the
\* processed count and the documents as they were; so every fetch is at a
\* depth below maxDepth.
C30_SkippedVisitIsNoOp ==
  [][/\ AtSkippedVisit =>
          /\ stack' = Pop
          /\ UNCHANGED <<visited, normalizedVisited, pagesProcessed, documents,
                         openPages, fetchLog, pageLog>>
     /\ \A k \in 1..Len(fetchLog') : fetchLog'[k].depth < maxDepth]_vars

\* A link of the start page was turned away for its depth alone: its URL is
\* not visited and the page bound is not reached.
C30_Witness ==
  /\ crawlState = "running"
  /\ lastSkip # NoSkip
  /\ lastSkip.depth >= maxDepth
  /\ lastSkip.url \notin visited
  /\ KeyOf[lastSkip.url] \notin normalizedVisited
  /\ Cardinality(visited) < maxPages

\* ------------------------------------------------------- no retry: claims

\* C31: the crawl layer never retries: no page is reloaded, no URL is
\* navigated to twice in a run, and every URL that was navigated to, loaded
\* or not, is visited and so is turned away when a later link names it.
C31_NeverRetries ==
  /\ reloads = 0
  /\ \A i, j \in 1..Len(fetchLog) : i < j => fetchLog[i].url # fetchLog[j].url
  /\ \A i \in 1..Len(fetchLog) : fetchLog[i].url \in visited

\* ------------------------------------------------- upload requests: claims

\* The products whose uploadWithRetry call, or the rest of whose loop body,
\* is in progress.
InProgress == {k \in Items : tasks[k].pc \notin {"none", "returned"}}

\* The create requests sent for terms of the kind that go by the name but for
\* case, and that the log shows.
CreatesOf(path, name) ==
  {n \in 1..Len(apiLog) :
     /\ apiLog[n].verb = "post"
     /\ apiLog[n].path = path
     /\ LowerChar(apiLog[n].arg) = LowerChar(name)}

\* C32: in the publish stage at most one product upload is in progress at any
\* time, so at most one getOrCreate call is between its search and its create
\* request, and the store never comes to hold two categories, or two tags, of
\* one name.
C32_OneUploadAtATime ==
  /\ Cardinality(InProgress) <= 1
  /\ Cardinality({k \in Items : tasks[k].pc \in {"lookup", "create"}}) <= 1
  /\ \A a, b \in storeTerms :
       (a.kind = b.kind /\ LowerChar(a.name) = LowerChar(b.name)) => a = b

\* Two products of one category, which the store did not hold, were uploaded:
\* the upload of the first created it with one request and the upload of the
\* second, begun after the first was over, found it in the cache.
C32_Witness ==
  /\ uploadStage = "done"
  /\ Len(processedProducts) = 2
  /\ Cardinality(CreatesOf("categories", "p")) = 1
  /\ \E n \in 1..Len(termCalls) :
       termCalls[n] = TermCall("category", "p", termCache["category"]["p"], 0)

\* The places of the log of the posts of product k, one for each attempt.
PostsOf(k) ==
  {n \in 1..Len(apiLog) :
     apiLog[n].verb = "post" /\ apiLog[n].path = "products" /\ apiLog[n].item = k}

\* C33: every upload attempt of a product posts the same category ids and the
\* same tag ids: those of a second or later attempt are those of the first.
C33_SameTermsEveryAttempt ==
  \A k \in Items : \A m, n \in PostsOf(k) :
    /\ apiLog[m].categories = apiLog[n].categories
    /\ apiLog[m].tags = apiLog[n].tags

\* The places of the log of the delete requests.
Deletes == {n \in 1..Len(apiLog) : apiLog[n].verb = "delete"}

\* C34: uploadProduct never deletes a product of the store that is published;
\* what it deletes is the product held under the SKU of the product it
\* uploads, of a status other than "publish", and the delete is sent before
\* the create request of the same call.
C34_PublishedNeverDeleted ==
  \A n \in Deletes :
    /\ apiLog[n].held \notin {"none", "publish"}
    /\ apiLog[n].path = "products"
    /\ apiLog[n].arg = uploadProducts[apiLog[n].item].sku
    /\ \A m \in PostsOf(apiLog[n].item) : apiLog[m].attempt = apiLog[n].attempt => n < m

\* The draft held under the SKU of a product was deleted and the product was
\* then posted by the same call and is now published.
C34_Witness ==
  \E n \in Deletes : \E m \in PostsOf(apiLog[n].item) :
    /\ apiLog[n].held = "draft"
    /\ apiLog[m].attempt = apiLog[n].attempt
    /\ n < m
    /\ catalog[apiLog[n].arg] = "publish"

\* The getOrCreate calls before call m that were for the same kind and name
\* and returned an id.
EarlierSuccesses(m) ==
  {n \in 1..(m - 1) :
     /\ termCalls[n].kind = termCalls[m].kind
     /\ termCalls[n].name = termCalls[m].name
     /\ termCalls[n].id # 0}

\* C37: once a getOrCreate call for a name has returned an id, every later
\* call for that name returns the same id and sends no request; a call that
\* failed returned null, left the cache without the name, and the next call
\* for the name asks the store again.
C37_GetOrCreateCached ==
  /\ \A m \in 1..Len(termCalls) :
       /\ \A n \in EarlierSuccesses(m) :
            termCalls[m].id = termCalls[n].id /\ termCalls[m].requests = 0
       /\ EarlierSuccesses(m) = {} => termCalls[m].requests >= 1
  /\ \A kind \in TermKinds, name \in TermNames :
       termCache[kind][name] # 0 <=>
         \E n \in 1..Len(termCalls) :
           /\ termCalls[n].kind = kind
           /\ termCalls[n].name = name
           /\ termCalls[n].id = termCache[kind][name]
           /\ termCalls[n].id # 0

\* Three calls for one category: the first failed, the second asked the
\* store again and got an id, the third returned that id with no request.
C37_Witness ==
  \E a, b, c \in 1..Len(termCalls) :
    /\ a < b /\ b < c
    /\ termCalls[a] = TermCall("category", "p", 0, termCalls[a].requests)
    /\ termCalls[b].kind = "category" /\ termCalls[b].name = "p"
    /\ termCalls[b].id # 0 /\ termCalls[b].requests >= 1
    /\ termCalls[c] = TermCall("category", "p", termCalls[b].id, 0)

\* ------------------------------------------------- visited sets: claims

\* C35: at every point of a crawl this.visited, this.normalizedVisited and
\* this.pagesProcessed have the same size, which is at most maxPages, and the
\* normalized key of every URL of this.visited is in this.normalizedVisited.
C35_VisitedSetsAgree ==
  /\ Cardinality(visited) = Cardinality(normalizedVisited)
  /\ Cardinality(visited) = pagesProcessed
  /\ pagesProcessed <= maxPages
  /\ \A u \in visited : KeyOf[u] \in normalizedVisited

\* maxPages URLs are visited, among them one that is not its own key, and the
\* crawl goes on.
C35_Witness ==
  /\ crawlState = "running"
  /\ stack # <<>>
  /\ pagesProcessed = maxPages
  /\ pagesProcessed > 1
  /\ \E u \in visited : KeyOf[u] # u

\* --------------------------------------------------- open pages: claims

\* The _crawlPage calls in progress that have opened their page.
WithPage == {i \in 1..Len(stack) : stack[i].pc # "entry"}

\* C36: at every point of a crawl at most maxDepth pages are open, and the
\* open pages are those of the visits in progress: the page a visit opened is
\* closed when the visit returns, whether it succeeded, returned early or
\* failed, and none is open once crawl() has ended.
C36_PagesClosed ==
  /\ openPages <= maxDepth
  /\ openPages = Cardinality(WithPage)
  /\ crawlState \in {"done", "threw"} => openPages = 0

\* The crawl has returned with no page open after maxDepth > 1 pages were open
\* at once, the deepest of which failed to load.
C36_Witness ==
  /\ crawlState = "done"
  /\ openPages = 0
  /\ maxDepth > 1
  /\ \E k \in 1..Len(fetchLog) :
       /\ fetchLog[k].depth = maxDepth - 1
       /\ \A j \in 1..Len(pageLog) : pageLog[j].url # fetchLog[k].url

\* -------------------------------------------------- termination: claims

\* crawl() has returned the document list: no visit is in progress.
CrawlReturned ==
  /\ crawlState = "done"
  /\ stack = <<>>
  /\ returned = documents

\* C38: whatever the links of the site, cycles included, and whichever
\* fetches fail, crawl(startUrl) eventually finishes with no visit in
\* progress and the document list returned; this for every run in which
\* browser.newPage() does not throw out of the outermost visit, which is no
\* failure of a fetch.
C38_CrawlTerminates == [](crawlState # "throwing") => <>CrawlReturned

\* The crawl has returned after a link led back to a URL already visited and
\* after a fetch failed.
C38_Witness ==
  /\ CrawlReturned
  /\ lastSkip # NoSkip
  /\ lastSkip.url \in visited
  /\ lastSkip.depth < maxDepth
  /\ \E k \in 1..Len(fetchLog) : \A j \in 1..Len(pageLog) : pageLog[j].url # fetchLog[k].url

====
